---- MODULE Spec2Model ----
(***************************************************************************)
(* Model of the signaling (rendezvous) server, src/server/index.js.        *)
(*                                                                         *)
(* The server keeps a module-level Map `rooms` (roomId -> {participants}), *)
(* tags every socket with `socket.roomId`, and uses the Socket.IO adapter  *)
(* rooms for delivery: socket.join(roomId) adds the socket to the adapter  *)
(* room named roomId, and every socket is, from connection on, a member of *)
(* the adapter room named by its own socket.id.  io.to(x).emit delivers to *)
(* every socket in adapter room x; socket.to(x).emit to every one of them  *)
(* but the emitting socket.  Room ids and target ids are strings chosen by *)
(* the client, so they share one namespace with the socket ids.            *)
(*                                                                         *)
(* Every handler runs to completion (Node's event loop): one action each.  *)
(*                                                                         *)
(* The second part models the client application, client/src/App.jsx: the  *)
(* React state and refs of each App instance, its socket handlers, its     *)
(* button callbacks and the RTCPeerConnection objects it creates, together *)
(* with the captures of the WebRTCStream component it renders.  The other  *)
(* parts model the useWebRTC hook (one call of its startMedia with the     *)
(* error utilities of client/src/utils/webrtc.js, and its connection and   *)
(* media methods), retryOperation, and the SignalingClient of              *)
(* client/src/utils/signaling.js talking to the server.                    *)
(***************************************************************************)
EXTENDS Integers, Sequences, FiniteSets, TLC

\* Socket ids issued by the server; an id is never issued twice.
PeerIds == {"p1", "p2", "p3"}

\* Room ids the clients type in (free text); the last one coincides with a socket id.
RoomIds == {"r1", "p3"}

\* Every string a client may send as roomId or targetId.
Names == PeerIds \cup RoomIds

\* Opaque session descriptions / candidates carried by relayed messages.
Payloads == {"sdpA", "sdpB"}

\* The three relayed message kinds.
RelayKinds == {"offer", "answer", "ice-candidate"}

\* Bound on the total number of entries in all participant lists.
MaxMembership == 3

\* socket.roomId before any create-room / join-room.
undefined == "undefined"

VARIABLES
    status,     \* status[p]: "new" (id not issued yet), "connected", "disconnected"
    rooms,      \* the Map `rooms`: roomId -> [participants: Seq(socket id)]
    roomId,     \* roomId[p]: the socket.roomId tag of socket p
    adapter,    \* adapter[p]: the adapter rooms socket p is in (socket.rooms)
    handled,    \* the event the server handled last
    response,   \* what the last handler passed to its callback
    emitted     \* the events the last handler emitted, one record per receiving socket

vars == <<status, rooms, roomId, adapter, handled, response, emitted>>

\* The sockets that run the client application (client/src/App.jsx).
Clients == {"p1", "p2"}

\* The room id the users of the application type in.
ClientRoomIds == {"r1"}

\* Bound on the RTCPeerConnection objects one client creates.
MaxPcs == 2

\* Bound on the ICE candidates all RTCPeerConnections together gather.
MaxCandidates == 1

\* Bound on the buttons pressed and pages closed by all users together.
MaxClicks == 4

\* null in the client's state and refs.
null == "null"

\* One App instance per client; RTCPeerConnection objects are numbered per
\* client in creation order, 0 is the null ref.
VARIABLES
    currentRoom,      \* currentRoom[c]: React state currentRoom
    remotePeerId,     \* remotePeerId[c]: React state remotePeerId
    peerConnectionRef,\* peerConnectionRef[c]: index of the current RTCPeerConnection, or 0
    dataChannelRef,   \* dataChannelRef[c]: index of the connection owning the current channel, or 0
    connectionState,  \* connectionState[c]: React state shown to the user
    remoteStream,     \* remoteStream[c]: TRUE iff a remote MediaStream is held
    localStream,      \* localStream[c]: TRUE iff localStreamRef holds a live MediaStream
    pcs,              \* pcs[c]: the RTCPeerConnection objects client c created
    tasks,            \* tasks[c]: suspended async handlers, in the order they called their pending operation
    inbox,            \* inbox[c]: events and acks on their way from the server to client c
    callMode,         \* callMode[c]: React state callMode, the mode of the last stream acquired
    screenStream,     \* screenStream[c]: TRUE iff WebRTCStream's screenStreamRef holds a live capture
    canvasStream,     \* canvasStream[c]: TRUE iff WebRTCStream's canvasStreamRef holds a live capture
    isAudioEnabled,   \* isAudioEnabled[c]: React state shown on the mute button
    isVideoEnabled,   \* isVideoEnabled[c]: React state shown on the video button
    trackEnabled,     \* trackEnabled[c]: the enabled flags of the audio and video tracks of localStreamRef
    startMedia,       \* the progress of one call of useWebRTC's startMedia
    retry,            \* the progress of one call of retryOperation
    signaling,        \* one SignalingClient object and the promises it returned
    hook,             \* the refs and state of one useWebRTC hook
    did,              \* the step a client took last
    clicks            \* the number of buttons the users have pressed so far

\* The mute and video flags of App and the tracks they stand for.
toggles == <<isAudioEnabled, isVideoEnabled, trackEnabled>>

\* The state of the utilities and of the hook, which App does not use.
utilities == <<startMedia, retry, signaling, hook>>

cvars == <<currentRoom, remotePeerId, peerConnectionRef, dataChannelRef, connectionState,
           remoteStream, localStream, pcs, tasks, inbox, did, clicks,
           callMode, screenStream, canvasStream, toggles, utilities>>

allvars == <<vars, cvars>>

\* No callback was invoked by the last handler.
NoResponse == [to |-> "nobody"]

----------------------------------------------------------------------------
\* Helpers

\* Array.prototype.filter(id => id !== socketId)
Without(participants, id) == SelectSeq(participants, LAMBDA x : x # id)

\* The sockets io.to(name) addresses: the members of adapter room `name`.
SocketsIn(name) == {q \in PeerIds : name \in adapter[q]}

\* The ids occurring in a participant list.
Members(participants) == {participants[i] : i \in 1..Len(participants)}

\* rooms.has(r)
Has(r) == r \in DOMAIN rooms

\* rooms.set(r, room)
MapSet(r, room) == [x \in DOMAIN rooms \cup {r} |-> IF x = r THEN room ELSE rooms[x]]

\* rooms.delete(r)
MapDelete(r) == [x \in DOMAIN rooms \ {r} |-> rooms[x]]

RECURSIVE SumLen(_)
SumLen(S) ==
    IF S = {} THEN 0
    ELSE LET r == CHOOSE x \in S : TRUE
         IN Len(rooms[r].participants) + SumLen(S \ {r})

\* Total number of entries in all participant lists.
Membership == SumLen(DOMAIN rooms)

----------------------------------------------------------------------------
\* The tracks of a stream as getUserMedia hands it out: all enabled.
AllEnabled == [audio |-> TRUE, video |-> TRUE]

\* new SignalingClient(serverUrl): no socket, nothing called yet.
NewSignalingClient ==
    [socket |-> null, acks |-> << >>, calls |-> 0, last |-> [outcome |-> "none"]]

\* useWebRTC's refs and state on the first render: no connection, no stream.
NewHook ==
    [peerConnectionRef |-> 0, localStreamRef |-> 0, connectionState |-> "new",
     pcs |-> << >>, streams |-> 0, pending |-> 0, calls |-> 0, last |-> "render",
     returned |-> 0]

\* The useState / useRef initial values of App (App.jsx:45-72), no event in flight.
ClientInit ==
    /\ currentRoom = [c \in Clients |-> null]
    /\ remotePeerId = [c \in Clients |-> null]
    /\ peerConnectionRef = [c \in Clients |-> 0]
    /\ dataChannelRef = [c \in Clients |-> 0]
    /\ connectionState = [c \in Clients |-> "disconnected"]
    /\ remoteStream = [c \in Clients |-> FALSE]
    /\ localStream = [c \in Clients |-> FALSE]
    /\ pcs = [c \in Clients |-> << >>]
    /\ tasks = [c \in Clients |-> << >>]
    /\ inbox = [c \in Clients |-> << >>]
    /\ did = [step |-> "mount"]
    /\ clicks = 0
    /\ callMode = [c \in Clients |-> "video"]
    /\ screenStream = [c \in Clients |-> FALSE]
    /\ canvasStream = [c \in Clients |-> FALSE]
    /\ isAudioEnabled = [c \in Clients |-> TRUE]
    /\ isVideoEnabled = [c \in Clients |-> TRUE]
    /\ trackEnabled = [c \in Clients |-> AllEnabled]
    /\ startMedia = [step |-> "idle"]
    /\ retry = [step |-> "idle"]
    /\ signaling = NewSignalingClient
    /\ hook = NewHook

Init ==
    /\ status = [p \in PeerIds |-> "new"]
    /\ rooms = << >>
    /\ roomId = [p \in PeerIds |-> undefined]
    /\ adapter = [p \in PeerIds |-> {}]
    /\ handled = [event |-> "listen"]
    /\ response = NoResponse
    /\ emitted = {}
    /\ ClientInit

\* io.on('connection'): the socket gets its id and joins the adapter room of that name.
Connection(p) ==
    /\ status[p] = "new"
    /\ status' = [status EXCEPT ![p] = "connected"]
    /\ adapter' = [adapter EXCEPT ![p] = {p}]
    /\ handled' = [event |-> "connection", socket |-> p]
    /\ response' = NoResponse
    /\ emitted' = {}
    /\ UNCHANGED <<rooms, roomId>>

\* create-room that, on an existing room, adds the caller to it instead of failing.
CreateRoom_JoinsExisting(p, r) ==
    /\ status[p] = "connected"
    /\ handled' = [event |-> "create-room", socket |-> p, roomId |-> r]
    /\ emitted' = {}
    /\ Membership < MaxMembership
    /\ rooms' = MapSet(r, [participants |->
                             IF Has(r) THEN Append(rooms[r].participants, p) ELSE <<p>>])
    /\ adapter' = [adapter EXCEPT ![p] = @ \cup {r}]
    /\ roomId' = [roomId EXCEPT ![p] = r]
    /\ response' = [to |-> p, success |-> TRUE, roomId |-> r,
                    participantCount |-> Len(rooms'[r].participants)]
    /\ UNCHANGED status

\* create-room without the rooms.has(roomId) check: an existing room is overwritten.
CreateRoom_NoHasCheck(p, r) ==
    /\ status[p] = "connected"
    /\ handled' = [event |-> "create-room", socket |-> p, roomId |-> r]
    /\ emitted' = {}
    /\ Membership < MaxMembership
    /\ rooms' = MapSet(r, [participants |-> <<p>>])
    /\ adapter' = [adapter EXCEPT ![p] = @ \cup {r}]
    /\ roomId' = [roomId EXCEPT ![p] = r]
    /\ response' = [to |-> p, success |-> TRUE, roomId |-> r, participantCount |-> 1]
    /\ UNCHANGED status

\* socket.on('create-room')
CreateRoom(p, r) ==
    /\ status[p] = "connected"
    /\ handled' = [event |-> "create-room", socket |-> p, roomId |-> r]
    /\ emitted' = {}
    /\ IF Has(r)
       THEN /\ response' = [to |-> p, success |-> FALSE, message |-> "Room already exists"]
            /\ UNCHANGED <<status, rooms, roomId, adapter>>
       ELSE /\ Membership < MaxMembership
            /\ rooms' = MapSet(r, [participants |-> <<p>>])
            /\ adapter' = [adapter EXCEPT ![p] = @ \cup {r}]
            /\ roomId' = [roomId EXCEPT ![p] = r]
            /\ response' = [to |-> p, success |-> TRUE, roomId |-> r, participantCount |-> 1]
            /\ UNCHANGED status

\* join-room that tags the socket (socket.roomId = roomId) before the rooms.has check.
JoinRoom_TagBeforeCheck(p, r) ==
    /\ status[p] = "connected"
    /\ handled' = [event |-> "join-room", socket |-> p, roomId |-> r]
    /\ roomId' = [roomId EXCEPT ![p] = r]
    /\ IF ~Has(r)
       THEN /\ response' = [to |-> p, success |-> FALSE, message |-> "Room does not exist"]
            /\ emitted' = {}
            /\ UNCHANGED <<status, rooms, adapter>>
       ELSE LET participants == Append(rooms[r].participants, p)
            IN /\ Membership < MaxMembership
               /\ rooms' = MapSet(r, [participants |-> participants])
               /\ adapter' = [adapter EXCEPT ![p] = @ \cup {r}]
               /\ emitted' = {[to |-> q, event |-> "user-joined", userId |-> p,
                               participantCount |-> Len(participants)]
                              : q \in SocketsIn(r) \ {p}}
               /\ response' = [to |-> p, success |-> TRUE, roomId |-> r,
                               participantCount |-> Len(participants),
                               existingParticipants |-> Without(participants, p)]
               /\ UNCHANGED status

\* socket.on('join-room')
JoinRoom(p, r) ==
    /\ status[p] = "connected"
    /\ handled' = [event |-> "join-room", socket |-> p, roomId |-> r]
    /\ IF ~Has(r)
       THEN /\ response' = [to |-> p, success |-> FALSE, message |-> "Room does not exist"]
            /\ emitted' = {}
            /\ UNCHANGED <<status, rooms, roomId, adapter>>
       ELSE LET participants == Append(rooms[r].participants, p)
            IN /\ Membership < MaxMembership
               /\ rooms' = MapSet(r, [participants |-> participants])
               /\ adapter' = [adapter EXCEPT ![p] = @ \cup {r}]
               /\ roomId' = [roomId EXCEPT ![p] = r]
               /\ emitted' = {[to |-> q, event |-> "user-joined", userId |-> p,
                               participantCount |-> Len(participants)]
                              : q \in SocketsIn(r) \ {p}}
               /\ response' = [to |-> p, success |-> TRUE, roomId |-> r,
                               participantCount |-> Len(participants),
                               existingParticipants |-> Without(participants, p)]
               /\ UNCHANGED status

\* socket.on('offer'), socket.on('answer'), socket.on('ice-candidate')
Relay(kind, p, payload, targetId) ==
    /\ status[p] = "connected"
    /\ handled' = [event |-> kind, socket |-> p, payload |-> payload, targetId |-> targetId]
    /\ emitted' = {[to |-> q, event |-> kind, payload |-> payload, senderId |-> p]
                   : q \in SocketsIn(targetId)}
    /\ response' = NoResponse
    /\ UNCHANGED <<status, rooms, roomId, adapter>>

Offer(p, payload, targetId) == Relay("offer", p, payload, targetId)

Answer(p, payload, targetId) == Relay("answer", p, payload, targetId)

IceCandidate(p, payload, targetId) == Relay("ice-candidate", p, payload, targetId)

\* disconnect without the `participants.length === 0` deletion.
Disconnect_KeepEmptyRoom(p) ==
    /\ status[p] = "connected"
    /\ status' = [status EXCEPT ![p] = "disconnected"]
    /\ adapter' = [adapter EXCEPT ![p] = {}]
    /\ handled' = [event |-> "disconnect", socket |-> p]
    /\ response' = NoResponse
    /\ UNCHANGED roomId
    /\ IF roomId[p] # undefined /\ Has(roomId[p])
       THEN LET participants == Without(rooms[roomId[p]].participants, p)
            IN /\ emitted' = {[to |-> q, event |-> "user-left", userId |-> p,
                               participantCount |-> Len(participants)]
                              : q \in SocketsIn(roomId[p]) \ {p}}
               /\ rooms' = MapSet(roomId[p], [participants |-> participants])
       ELSE /\ emitted' = {}
            /\ UNCHANGED rooms

\* socket.on('disconnect')
Disconnect(p) ==
    /\ status[p] = "connected"
    /\ status' = [status EXCEPT ![p] = "disconnected"]
    /\ adapter' = [adapter EXCEPT ![p] = {}]
    /\ handled' = [event |-> "disconnect", socket |-> p]
    /\ response' = NoResponse
    /\ UNCHANGED roomId
    /\ IF roomId[p] # undefined /\ Has(roomId[p])
       THEN LET participants == Without(rooms[roomId[p]].participants, p)
            IN /\ emitted' = {[to |-> q, event |-> "user-left", userId |-> p,
                               participantCount |-> Len(participants)]
                              : q \in SocketsIn(roomId[p]) \ {p}}
               /\ rooms' = IF Len(participants) = 0
                           THEN MapDelete(roomId[p])
                           ELSE MapSet(roomId[p], [participants |-> participants])
       ELSE /\ emitted' = {}
            /\ UNCHANGED rooms

\* get-room-info that reports the other participants only (the filter of join-room).
GetRoomInfo_OthersOnly(p, r) ==
    /\ status[p] = "connected"
    /\ handled' = [event |-> "get-room-info", socket |-> p, roomId |-> r]
    /\ emitted' = {}
    /\ response' = IF ~Has(r)
                   THEN [to |-> p, success |-> FALSE, message |-> "Room not found"]
                   ELSE [to |-> p, success |-> TRUE, roomId |-> r,
                         participantCount |-> Len(Without(rooms[r].participants, p)),
                         participants |-> Without(rooms[r].participants, p)]
    /\ UNCHANGED <<status, rooms, roomId, adapter>>

\* socket.on('get-room-info')
GetRoomInfo(p, r) ==
    /\ status[p] = "connected"
    /\ handled' = [event |-> "get-room-info", socket |-> p, roomId |-> r]
    /\ emitted' = {}
    /\ response' = IF ~Has(r)
                   THEN [to |-> p, success |-> FALSE, message |-> "Room not found"]
                   ELSE [to |-> p, success |-> TRUE, roomId |-> r,
                         participantCount |-> Len(rooms[r].participants),
                         participants |-> rooms[r].participants]
    /\ UNCHANGED <<status, rooms, roomId, adapter>>

\* The server on its own, driven by arbitrary sockets; no App instance runs.
Next ==
    \/ \E p \in PeerIds : Connection(p) /\ UNCHANGED cvars
    \/ \E p \in PeerIds, r \in RoomIds : CreateRoom(p, r) /\ UNCHANGED cvars
    \/ \E p \in PeerIds, r \in RoomIds : JoinRoom(p, r) /\ UNCHANGED cvars
    \/ \E p \in PeerIds, payload \in Payloads, targetId \in Names :
         Offer(p, payload, targetId) /\ UNCHANGED cvars
    \/ \E p \in PeerIds, payload \in Payloads, targetId \in Names :
         Answer(p, payload, targetId) /\ UNCHANGED cvars
    \/ \E p \in PeerIds, payload \in Payloads, targetId \in Names :
         IceCandidate(p, payload, targetId) /\ UNCHANGED cvars
    \/ \E p \in PeerIds : Disconnect(p) /\ UNCHANGED cvars
    \/ \E p \in PeerIds, r \in RoomIds : GetRoomInfo(p, r) /\ UNCHANGED cvars

Spec == Init /\ [][Next]_vars

----------------------------------------------------------------------------
\* The client application, client/src/App.jsx (function App).
\*
\* Every synchronous stretch of JavaScript is one action: a UI callback, a
\* socket event handler up to its first await, or the resolution of a pending
\* browser operation together with the continuation of the handler awaiting it
\* up to its next await.  socket.emit and the server's handling of the
\* message are taken in one step; what the server sends back travels through
\* inbox[c] in order.  The browser's RTCPeerConnection is modelled by its
\* signaling state machine and its operations chain (operations called on one
\* connection complete in the order they were called).

\* No session description.
NoDesc == [type |-> "none"]

\* The modes of the call buttons: startCall('video'), startCall('audio').
CallModes == {"video", "audio"}

\* The constraints startCall(mode) passes to getUserMedia.
Constraints(mode) == [type |-> "constraints", mode |-> mode]

\* The video tracks of a local stream acquired in the given mode.
VideoTracks(stream, mode) == IF stream /\ mode = "video" THEN 1 ELSE 0

\* new RTCPeerConnection(ICE_SERVERS) inside createPeerConnection(remotePeer):
\* the handlers close over remotePeer; local tracks are added when a local
\* stream exists; video counts the senders that carry a video track.
NewPc(remotePeer, withTracks, video) ==
    [remotePeer |-> remotePeer,
     signalingState |-> "stable",
     localSet |-> FALSE,
     remoteFrom |-> << >>,
     connectionState |-> "new",
     stateEvent |-> FALSE,
     gathered |-> 0,
     applied |-> << >>,
     dc |-> "none",
     tracks |-> withTracks,
     video |-> video]

\* RTCPeerConnection.close(): closes the connection and its data channels and
\* fires no event.
ClosedPc(pc) ==
    [pc EXCEPT !.signalingState = "closed",
               !.connectionState = "closed",
               !.stateEvent = FALSE,
               !.dc = IF pc.dc = "none" THEN "none" ELSE "closed"]

IsClosed(pc) == pc.signalingState = "closed"

\* A suspended async function: the handler, the operation it awaits, the
\* connection the operation was called on (0: none), the peer the handler
\* talks to, and the description or candidate in its hands.
Task(handler, await, pc, peer, desc) ==
    [handler |-> handler, await |-> await, pc |-> pc, peer |-> peer, desc |-> desc]

\* seq without its k-th element.
RemoveAt(seq, k) == SubSeq(seq, 1, k - 1) \o SubSeq(seq, k + 1, Len(seq))

\* The k-th task of c awaits `await` and its operation is next in the
\* operations chain of its connection.
Resolvable(c, k, await) ==
    /\ k \in 1..Len(tasks[c])
    /\ tasks[c][k].await = await
    /\ \A j \in 1..(k - 1) : tasks[c][j].pc # tasks[c][k].pc \/ tasks[c][k].pc = 0

\* What the server's last handler sent to client q: its callback's answer if
\* q was the caller, then the event emitted to q, appended to q's inbox.
Delivered(q) ==
    (IF response'.to = q THEN <<[event |-> "ack", response |-> response']>> ELSE << >>)
    \o (IF \E e \in emitted' : e.to = q
        THEN <<CHOOSE e \in emitted' : e.to = q>>
        ELSE << >>)

\* The inboxes after the server handled a message.
Sent == inbox' = [q \in Clients |-> inbox[q] \o Delivered(q)]

\* The inboxes after client c took the head of its inbox and the server
\* handled a message c emitted in the same handler.
PoppedAndSent(c) ==
    inbox' = [q \in Clients |-> (IF q = c THEN Tail(inbox[q]) ELSE inbox[q]) \o Delivered(q)]

Popped(c) == inbox' = [inbox EXCEPT ![c] = Tail(@)]

\* The step answers a user's gesture.
Clicked == clicks < MaxClicks /\ clicks' = clicks + 1

\* The server is not involved in the step.
ServerIdle == UNCHANGED vars

\* The head of c's inbox is an event of the given kind.
Incoming(c, kind) ==
    /\ status[c] = "connected"
    /\ inbox[c] # << >>
    /\ Head(inbox[c]).event = kind

\* cleanup() that drops the refs without calling close() on them.
CleanedUp_NoClose(c) ==
    /\ UNCHANGED <<pcs, tasks>>
    /\ dataChannelRef' = [dataChannelRef EXCEPT ![c] = 0]
    /\ peerConnectionRef' = [peerConnectionRef EXCEPT ![c] = 0]
    /\ remoteStream' = [remoteStream EXCEPT ![c] = FALSE]
    /\ connectionState' = [connectionState EXCEPT ![c] = "disconnected"]
    /\ remotePeerId' = [remotePeerId EXCEPT ![c] = null]

\* cleanup(): close and drop the data channel and the connection, clear the
\* remote stream, the connection state and the remote peer.  Operations
\* pending on a closed connection never settle.
CleanedUp(c) ==
    /\ pcs' = [pcs EXCEPT ![c] =
                 [i \in 1..Len(@) |->
                    IF i = peerConnectionRef[c] THEN ClosedPc(@[i])
                    ELSE IF i = dataChannelRef[c] THEN [@[i] EXCEPT !.dc = "closed"]
                    ELSE @[i]]]
    /\ tasks' = [tasks EXCEPT ![c] =
                   SelectSeq(@, LAMBDA t : t.pc = 0 \/ t.pc # peerConnectionRef[c])]
    /\ dataChannelRef' = [dataChannelRef EXCEPT ![c] = 0]
    /\ peerConnectionRef' = [peerConnectionRef EXCEPT ![c] = 0]
    /\ remoteStream' = [remoteStream EXCEPT ![c] = FALSE]
    /\ connectionState' = [connectionState EXCEPT ![c] = "disconnected"]
    /\ remotePeerId' = [remotePeerId EXCEPT ![c] = null]

\* useEffect: io(SIGNALING_SERVER)
Connect(c) ==
    /\ Connection(c)
    /\ UNCHANGED clicks
    /\ UNCHANGED <<callMode, screenStream, canvasStream, toggles, utilities>>
    /\ did' = [client |-> c, step |-> "connect"]
    /\ UNCHANGED <<currentRoom, remotePeerId, peerConnectionRef, dataChannelRef,
                   connectionState, remoteStream, localStream, pcs, tasks, inbox>>

\* createRoom(), offered while the client is in no room
ClickCreateRoom(c, r) ==
    /\ currentRoom[c] = null
    /\ CreateRoom(c, r)
    /\ Sent
    /\ Clicked
    /\ UNCHANGED <<callMode, screenStream, canvasStream, toggles, utilities>>
    /\ did' = [client |-> c, step |-> "createRoom"]
    /\ UNCHANGED <<currentRoom, remotePeerId, peerConnectionRef, dataChannelRef,
                   connectionState, remoteStream, localStream, pcs, tasks>>

\* joinRoom(), offered while the client is in no room
ClickJoinRoom(c, r) ==
    /\ currentRoom[c] = null
    /\ JoinRoom(c, r)
    /\ Sent
    /\ Clicked
    /\ UNCHANGED <<callMode, screenStream, canvasStream, toggles, utilities>>
    /\ did' = [client |-> c, step |-> "joinRoom"]
    /\ UNCHANGED <<currentRoom, remotePeerId, peerConnectionRef, dataChannelRef,
                   connectionState, remoteStream, localStream, pcs, tasks>>

\* The callbacks passed to emit('create-room') and emit('join-room')
OnAck(c) ==
    /\ Incoming(c, "ack")
    /\ LET res == Head(inbox[c]).response
       IN /\ currentRoom' = [currentRoom EXCEPT ![c] = IF res.success THEN res.roomId ELSE @]
          /\ remotePeerId' =
               [remotePeerId EXCEPT ![c] =
                  IF /\ res.success
                     /\ "existingParticipants" \in DOMAIN res
                     /\ Len(res.existingParticipants) > 0
                  THEN res.existingParticipants[1]
                  ELSE @]
    /\ Popped(c)
    /\ ServerIdle
    /\ UNCHANGED clicks
    /\ UNCHANGED <<callMode, screenStream, canvasStream, toggles, utilities>>
    /\ did' = [client |-> c, step |-> "ack"]
    /\ UNCHANGED <<peerConnectionRef, dataChannelRef, connectionState, remoteStream,
                   localStream, pcs, tasks>>

\* socketConnection.on('user-joined')
OnUserJoined(c) ==
    /\ Incoming(c, "user-joined")
    /\ remotePeerId' = [remotePeerId EXCEPT ![c] = Head(inbox[c]).userId]
    /\ Popped(c)
    /\ ServerIdle
    /\ UNCHANGED clicks
    /\ UNCHANGED <<callMode, screenStream, canvasStream, toggles, utilities>>
    /\ did' = [client |-> c, step |-> "user-joined", userId |-> Head(inbox[c]).userId]
    /\ UNCHANGED <<currentRoom, peerConnectionRef, dataChannelRef, connectionState,
                   remoteStream, localStream, pcs, tasks>>

\* socketConnection.on('user-left')
OnUserLeft(c) ==
    /\ Incoming(c, "user-left")
    /\ CleanedUp(c)
    /\ Popped(c)
    /\ ServerIdle
    /\ UNCHANGED clicks
    /\ UNCHANGED <<callMode, screenStream, canvasStream, toggles, utilities>>
    /\ did' = [client |-> c, step |-> "user-left", userId |-> Head(inbox[c]).userId]
    /\ UNCHANGED <<currentRoom, localStream>>

\* socketConnection.on('offer'), up to `await setRemoteDescription`
OnOffer(c) ==
    /\ Incoming(c, "offer")
    /\ LET msg == Head(inbox[c])
           fresh == peerConnectionRef[c] = 0
           pc == IF fresh THEN Len(pcs[c]) + 1 ELSE peerConnectionRef[c]
       IN /\ fresh => Len(pcs[c]) < MaxPcs
          /\ remotePeerId' = [remotePeerId EXCEPT ![c] = msg.senderId]
          /\ pcs' = IF fresh
                    THEN [pcs EXCEPT ![c] = Append(@, NewPc(msg.senderId, localStream[c],
                                                     VideoTracks(localStream[c], callMode[c])))]
                    ELSE pcs
          /\ peerConnectionRef' = [peerConnectionRef EXCEPT ![c] = pc]
          /\ tasks' = [tasks EXCEPT ![c] =
                         Append(@, Task("offer", "setRemoteDescription", pc,
                                        msg.senderId, msg.payload))]
          /\ UNCHANGED clicks
          /\ UNCHANGED <<callMode, screenStream, canvasStream, toggles, utilities>>
          /\ did' = [client |-> c, step |-> "offer", senderId |-> msg.senderId]
    /\ Popped(c)
    /\ ServerIdle
    /\ UNCHANGED <<currentRoom, dataChannelRef, connectionState, remoteStream, localStream>>

\* socketConnection.on('answer'), up to `await setRemoteDescription`
OnAnswer(c) ==
    /\ Incoming(c, "answer")
    /\ LET msg == Head(inbox[c])
       IN /\ tasks' = IF peerConnectionRef[c] # 0
                      THEN [tasks EXCEPT ![c] =
                              Append(@, Task("answer", "setRemoteDescription",
                                             peerConnectionRef[c], msg.senderId, msg.payload))]
                      ELSE tasks
          /\ UNCHANGED clicks
          /\ UNCHANGED <<callMode, screenStream, canvasStream, toggles, utilities>>
          /\ did' = [client |-> c, step |-> "answer", senderId |-> msg.senderId]
    /\ Popped(c)
    /\ ServerIdle
    /\ UNCHANGED <<currentRoom, remotePeerId, peerConnectionRef, dataChannelRef,
                   connectionState, remoteStream, localStream, pcs>>

\* socketConnection.on('ice-candidate'), up to `await addIceCandidate`: the
\* candidate is handed to the current connection if there is one, whatever
\* its remote description, and is dropped otherwise.
OnIceCandidate(c) ==
    /\ Incoming(c, "ice-candidate")
    /\ LET msg == Head(inbox[c])
       IN /\ tasks' = IF peerConnectionRef[c] # 0
                      THEN [tasks EXCEPT ![c] =
                              Append(@, Task("ice-candidate", "addIceCandidate",
                                             peerConnectionRef[c], msg.senderId, msg.payload))]
                      ELSE tasks
          /\ UNCHANGED clicks
          /\ UNCHANGED <<callMode, screenStream, canvasStream, toggles, utilities>>
          /\ did' = [client |-> c, step |-> "ice-candidate",
                     senderId |-> msg.senderId, candidate |-> msg.payload,
                     called |-> peerConnectionRef[c]]
    /\ Popped(c)
    /\ ServerIdle
    /\ UNCHANGED <<currentRoom, remotePeerId, peerConnectionRef, dataChannelRef,
                   connectionState, remoteStream, localStream, pcs>>

\* The k-th task of c is over (it returned, or its catch block logged the error).
Finished(c, k) == tasks' = [tasks EXCEPT ![c] = RemoveAt(@, k)]

\* The k-th task of c goes on with `await <operation>` called on connection pc.
Awaiting(c, k, await, pc, desc) ==
    tasks' = [tasks EXCEPT ![c] =
                Append(RemoveAt(@, k),
                       Task(tasks[c][k].handler, await, pc, tasks[c][k].peer, desc))]

\* pc.ontrack, fired while a remote description that carries tracks is applied.
TrackReceived(c, desc) ==
    remoteStream' = [remoteStream EXCEPT ![c] = @ \/ desc.tracks]

\* The connection state once both descriptions are set: ICE starts checking.
Checking(pc) ==
    IF pc.connectionState = "new"
    THEN [pc EXCEPT !.connectionState = "connecting", !.stateEvent = TRUE]
    ELSE pc

\* 'offer' handler: setRemoteDescription(offer) settles; on success the
\* handler goes on to `await peerConnectionRef.current.createAnswer()`.
\* A connection in have-local-offer rolls its offer back or rejects,
\* depending on the browser.
ResolveSetRemoteOffer(c, k, rollback) ==
    /\ Resolvable(c, k, "setRemoteDescription")
    /\ tasks[c][k].handler = "offer"
    /\ LET t == tasks[c][k]
           pc == pcs[c][t.pc]
           ok == \/ pc.signalingState \in {"stable", "have-remote-offer"}
                 \/ pc.signalingState = "have-local-offer" /\ rollback
       IN /\ pc.signalingState # "have-local-offer" => rollback
          /\ IF ok
             THEN /\ pcs' = [pcs EXCEPT ![c][t.pc].signalingState = "have-remote-offer",
                                        ![c][t.pc].remoteFrom = t.desc.from,
                                        ![c][t.pc].localSet =
                                            @ /\ pc.signalingState # "have-local-offer"]
                  /\ TrackReceived(c, t.desc)
                  /\ IF peerConnectionRef[c] = 0
                     THEN Finished(c, k)
                     ELSE Awaiting(c, k, "createAnswer", peerConnectionRef[c], t.desc)
             ELSE /\ Finished(c, k)
                  /\ UNCHANGED <<pcs, remoteStream>>
          /\ UNCHANGED clicks
          /\ UNCHANGED <<callMode, screenStream, canvasStream, toggles, utilities>>
          /\ did' = [client |-> c, step |-> "setRemoteDescription", ok |-> ok,
                     handler |-> "offer", pc |-> t.pc,
                     next |-> IF ok THEN peerConnectionRef[c] ELSE 0]
    /\ ServerIdle
    /\ UNCHANGED <<currentRoom, remotePeerId, peerConnectionRef, dataChannelRef,
                   connectionState, localStream, inbox>>

\* 'offer' handler: createAnswer() settles; on success the handler goes on to
\* `await peerConnectionRef.current.setLocalDescription(answer)`.
ResolveCreateAnswer(c, k) ==
    /\ Resolvable(c, k, "createAnswer")
    /\ LET t == tasks[c][k]
           pc == pcs[c][t.pc]
           ok == pc.signalingState = "have-remote-offer"
           answer == [type |-> "answer", from |-> <<c, t.pc>>, tracks |-> pc.tracks]
       IN /\ IF ok /\ peerConnectionRef[c] # 0
             THEN Awaiting(c, k, "setLocalDescription", peerConnectionRef[c], answer)
             ELSE Finished(c, k)
          /\ UNCHANGED clicks
          /\ UNCHANGED <<callMode, screenStream, canvasStream, toggles, utilities>>
          /\ did' = [client |-> c, step |-> "createAnswer", ok |-> ok,
                     handler |-> "offer", pc |-> t.pc,
                     next |-> IF ok THEN peerConnectionRef[c] ELSE 0]
    /\ ServerIdle
    /\ UNCHANGED <<currentRoom, remotePeerId, peerConnectionRef, dataChannelRef,
                   connectionState, remoteStream, localStream, pcs, inbox>>

\* The 'offer' handler without its try block around setLocalDescription: the
\* answer is emitted whether or not the call succeeded.
ResolveSetLocalAnswer_EmitsAnyway(c, k) ==
    /\ Resolvable(c, k, "setLocalDescription")
    /\ tasks[c][k].handler = "offer"
    /\ LET t == tasks[c][k]
           pc == pcs[c][t.pc]
           ok == pc.signalingState = "have-remote-offer" /\ t.desc.from = <<c, t.pc>>
       IN /\ Finished(c, k)
          /\ UNCHANGED clicks
          /\ UNCHANGED <<callMode, screenStream, canvasStream, toggles, utilities>>
          /\ did' = [client |-> c, step |-> "setLocalDescription", ok |-> ok,
                     type |-> "answer", handler |-> "offer", pc |-> t.pc, next |-> 0]
          /\ pcs' = IF ok
                    THEN [pcs EXCEPT ![c][t.pc] =
                            Checking([@ EXCEPT !.signalingState = "stable",
                                               !.localSet = TRUE])]
                    ELSE pcs
          /\ Answer(c, t.desc, t.peer)
          /\ Sent
    /\ UNCHANGED <<currentRoom, remotePeerId, peerConnectionRef, dataChannelRef,
                   connectionState, remoteStream, localStream>>

\* 'offer' handler: setLocalDescription(answer) settles; on success the
\* handler emits the answer to the sender of the offer.
ResolveSetLocalAnswer(c, k) ==
    /\ Resolvable(c, k, "setLocalDescription")
    /\ tasks[c][k].handler = "offer"
    /\ LET t == tasks[c][k]
           pc == pcs[c][t.pc]
           ok == pc.signalingState = "have-remote-offer" /\ t.desc.from = <<c, t.pc>>
       IN /\ Finished(c, k)
          /\ UNCHANGED clicks
          /\ UNCHANGED <<callMode, screenStream, canvasStream, toggles, utilities>>
          /\ did' = [client |-> c, step |-> "setLocalDescription", ok |-> ok,
                     type |-> "answer", handler |-> "offer", pc |-> t.pc, next |-> 0]
          /\ IF ok
             THEN /\ pcs' = [pcs EXCEPT ![c][t.pc] =
                               Checking([@ EXCEPT !.signalingState = "stable",
                                                  !.localSet = TRUE])]
                  /\ Answer(c, t.desc, t.peer)
                  /\ Sent
             ELSE /\ ServerIdle
                  /\ UNCHANGED <<pcs, inbox>>
    /\ UNCHANGED <<currentRoom, remotePeerId, peerConnectionRef, dataChannelRef,
                   connectionState, remoteStream, localStream>>

\* 'answer' handler: setRemoteDescription(answer) settles.
ResolveSetRemoteAnswer(c, k) ==
    /\ Resolvable(c, k, "setRemoteDescription")
    /\ tasks[c][k].handler = "answer"
    /\ LET t == tasks[c][k]
           pc == pcs[c][t.pc]
           ok == pc.signalingState = "have-local-offer"
       IN /\ Finished(c, k)
          /\ UNCHANGED clicks
          /\ UNCHANGED <<callMode, screenStream, canvasStream, toggles, utilities>>
          /\ did' = [client |-> c, step |-> "setRemoteDescription", ok |-> ok,
                     handler |-> "answer", pc |-> t.pc, next |-> 0, peer |-> t.peer]
          /\ IF ok
             THEN /\ pcs' = [pcs EXCEPT ![c][t.pc] =
                               Checking([@ EXCEPT !.signalingState = "stable",
                                                  !.remoteFrom = t.desc.from])]
                  /\ TrackReceived(c, t.desc)
             ELSE UNCHANGED <<pcs, remoteStream>>
    /\ ServerIdle
    /\ UNCHANGED <<currentRoom, remotePeerId, peerConnectionRef, dataChannelRef,
                   connectionState, localStream, inbox>>

\* 'ice-candidate' handler: addIceCandidate() settles; it rejects when the
\* connection has no remote description, and the handler only logs that.
ResolveAddIceCandidate(c, k) ==
    /\ Resolvable(c, k, "addIceCandidate")
    /\ LET t == tasks[c][k]
           pc == pcs[c][t.pc]
           ok == pc.remoteFrom # << >>
       IN /\ Finished(c, k)
          /\ pcs' = IF ok THEN [pcs EXCEPT ![c][t.pc].applied = Append(@, t.desc)] ELSE pcs
          /\ UNCHANGED clicks
          /\ UNCHANGED <<callMode, screenStream, canvasStream, toggles, utilities>>
          /\ did' = [client |-> c, step |-> "addIceCandidate", ok |-> ok,
                     candidate |-> t.desc, pc |-> t.pc, peer |-> t.peer]
    /\ ServerIdle
    /\ UNCHANGED <<currentRoom, remotePeerId, peerConnectionRef, dataChannelRef,
                   connectionState, remoteStream, localStream, inbox>>

\* initiateCall from `const pc = createPeerConnection(remotePeerId)` to
\* `await pc.createOffer()`: the new connection replaces the current one,
\* which is not closed; the data channel is created on it.
CallStarted(c, target, withTracks, video, pcsNow, tasksNow) ==
    LET n == Len(pcsNow) + 1
    IN /\ n <= MaxPcs
       /\ pcs' = [pcs EXCEPT ![c] =
                    Append(pcsNow, [NewPc(target, withTracks, video) EXCEPT !.dc = "open"])]
       /\ peerConnectionRef' = [peerConnectionRef EXCEPT ![c] = n]
       /\ dataChannelRef' = [dataChannelRef EXCEPT ![c] = n]
       /\ tasks' = [tasks EXCEPT ![c] =
                      Append(tasksNow, Task("initiateCall", "createOffer", n, target, NoDesc))]

\* initiateCall(), offered while remotePeerId is set and no connection
\* exists, up to its first await: `await startCall(mode)` when there is no
\* local stream, `await pc.createOffer()` otherwise.
ClickCall(c, mode) ==
    /\ status[c] = "connected"
    /\ currentRoom[c] # null
    /\ remotePeerId[c] # null
    /\ peerConnectionRef[c] = 0
    /\ IF localStream[c]
       THEN CallStarted(c, remotePeerId[c], TRUE, VideoTracks(TRUE, callMode[c]),
                        pcs[c], tasks[c])
       ELSE /\ tasks' = [tasks EXCEPT ![c] =
                           Append(@, Task("initiateCall", "getUserMedia", 0,
                                          remotePeerId[c], Constraints(mode)))]
            /\ UNCHANGED <<pcs, peerConnectionRef, dataChannelRef>>
    /\ Clicked
    /\ UNCHANGED <<callMode, screenStream, canvasStream, toggles, utilities>>
    /\ did' = [client |-> c, step |-> "initiateCall"]
    /\ ServerIdle
    /\ UNCHANGED <<currentRoom, remotePeerId, connectionState, remoteStream,
                   localStream, inbox>>

\* startCall whose catch block also closes the current connection.
ResolveGetUserMedia_DeniedEndsCall(c, k, granted) ==
    /\ Resolvable(c, k, "getUserMedia")
    /\ LET t == tasks[c][k]
           ref == peerConnectionRef[c]
           mode == t.desc.mode
           pcsNow == IF granted /\ ref # 0
                     THEN [pcs[c] EXCEPT ![ref].tracks = TRUE,
                                         ![ref].video = @ + VideoTracks(TRUE, mode)]
                     ELSE IF ref # 0
                          THEN [pcs[c] EXCEPT ![ref] = ClosedPc(@)]
                          ELSE pcs[c]
           streamNow == localStream[c] \/ granted
           modeNow == IF granted THEN mode ELSE callMode[c]
       IN /\ localStream' = [localStream EXCEPT ![c] = streamNow]
          /\ callMode' = [callMode EXCEPT ![c] = modeNow]
          /\ IF t.handler = "initiateCall"
             THEN CallStarted(c, t.peer, streamNow, VideoTracks(streamNow, modeNow),
                              pcsNow, RemoveAt(tasks[c], k))
             ELSE /\ pcs' = [pcs EXCEPT ![c] = pcsNow]
                  /\ Finished(c, k)
                  /\ UNCHANGED <<peerConnectionRef, dataChannelRef>>
          /\ UNCHANGED clicks
          /\ trackEnabled' = [trackEnabled EXCEPT ![c] = IF granted THEN AllEnabled ELSE @]
          /\ UNCHANGED <<screenStream, canvasStream, isAudioEnabled, isVideoEnabled, utilities>>
          /\ did' = [client |-> c, step |-> "getUserMedia", ok |-> granted,
                     handler |-> t.handler]
    /\ ServerIdle
    /\ UNCHANGED <<currentRoom, remotePeerId, connectionState, remoteStream, inbox>>

\* startCall: getUserMedia settles.  Granted: the stream is kept, the mode
\* is recorded and every track of the stream is added to the current
\* connection if there is one.  Denied: startCall alerts and returns.  When
\* initiateCall awaited startCall it goes on either way.
ResolveGetUserMedia(c, k, granted) ==
    /\ Resolvable(c, k, "getUserMedia")
    /\ LET t == tasks[c][k]
           ref == peerConnectionRef[c]
           mode == t.desc.mode
           pcsNow == IF granted /\ ref # 0
                     THEN [pcs[c] EXCEPT ![ref].tracks = TRUE,
                                         ![ref].video = @ + VideoTracks(TRUE, mode)]
                     ELSE pcs[c]
           streamNow == localStream[c] \/ granted
           modeNow == IF granted THEN mode ELSE callMode[c]
       IN /\ localStream' = [localStream EXCEPT ![c] = streamNow]
          /\ callMode' = [callMode EXCEPT ![c] = modeNow]
          /\ IF t.handler = "initiateCall"
             THEN CallStarted(c, t.peer, streamNow, VideoTracks(streamNow, modeNow),
                              pcsNow, RemoveAt(tasks[c], k))
             ELSE /\ pcs' = [pcs EXCEPT ![c] = pcsNow]
                  /\ Finished(c, k)
                  /\ UNCHANGED <<peerConnectionRef, dataChannelRef>>
          /\ UNCHANGED clicks
          /\ trackEnabled' = [trackEnabled EXCEPT ![c] = IF granted THEN AllEnabled ELSE @]
          /\ UNCHANGED <<screenStream, canvasStream, isAudioEnabled, isVideoEnabled, utilities>>
          /\ did' = [client |-> c, step |-> "getUserMedia", ok |-> granted,
                     handler |-> t.handler]
    /\ ServerIdle
    /\ UNCHANGED <<currentRoom, remotePeerId, connectionState, remoteStream, inbox>>

\* initiateCall: createOffer() settles; on success `await pc.setLocalDescription(offer)`.
ResolveCreateOffer(c, k) ==
    /\ Resolvable(c, k, "createOffer")
    /\ LET t == tasks[c][k]
           pc == pcs[c][t.pc]
           ok == pc.signalingState \in {"stable", "have-local-offer"}
           offer == [type |-> "offer", from |-> <<c, t.pc>>, tracks |-> pc.tracks]
       IN /\ IF ok
             THEN Awaiting(c, k, "setLocalDescription", t.pc, offer)
             ELSE Finished(c, k)
          /\ UNCHANGED clicks
          /\ UNCHANGED <<callMode, screenStream, canvasStream, toggles, utilities>>
          /\ did' = [client |-> c, step |-> "createOffer", ok |-> ok,
                     handler |-> "initiateCall", pc |-> t.pc,
                     next |-> IF ok THEN t.pc ELSE 0]
    /\ ServerIdle
    /\ UNCHANGED <<currentRoom, remotePeerId, peerConnectionRef, dataChannelRef,
                   connectionState, remoteStream, localStream, pcs, inbox>>

\* initiateCall: setLocalDescription(offer) settles; on success the offer is
\* emitted to the remotePeerId initiateCall was called with.
ResolveSetLocalOffer(c, k) ==
    /\ Resolvable(c, k, "setLocalDescription")
    /\ tasks[c][k].handler = "initiateCall"
    /\ LET t == tasks[c][k]
           pc == pcs[c][t.pc]
           ok == pc.signalingState \in {"stable", "have-local-offer"}
       IN /\ Finished(c, k)
          /\ UNCHANGED clicks
          /\ UNCHANGED <<callMode, screenStream, canvasStream, toggles, utilities>>
          /\ did' = [client |-> c, step |-> "setLocalDescription", ok |-> ok,
                     type |-> "offer", handler |-> "initiateCall", pc |-> t.pc, next |-> 0]
          /\ IF ok
             THEN /\ pcs' = [pcs EXCEPT ![c][t.pc].signalingState = "have-local-offer",
                                        ![c][t.pc].localSet = TRUE]
                  /\ Offer(c, t.desc, t.peer)
                  /\ Sent
             ELSE /\ ServerIdle
                  /\ UNCHANGED <<pcs, inbox>>
    /\ UNCHANGED <<currentRoom, remotePeerId, peerConnectionRef, dataChannelRef,
                   connectionState, remoteStream, localStream>>

RECURSIVE SumGathered(_)
SumGathered(seq) ==
    IF seq = << >> THEN 0 ELSE Head(seq).gathered + SumGathered(Tail(seq))

RECURSIVE GatheredBy(_)
GatheredBy(S) ==
    IF S = {} THEN 0
    ELSE LET c == CHOOSE x \in S : TRUE
         IN SumGathered(pcs[c]) + GatheredBy(S \ {c})

\* The number of candidates gathered so far.
Gathered == GatheredBy(Clients)

\* pc.onicecandidate: a gathered candidate is emitted to the peer the
\* connection was created for.
OnIceCandidateGathered(c, i) ==
    /\ i \in 1..Len(pcs[c])
    /\ ~IsClosed(pcs[c][i])
    /\ pcs[c][i].localSet
    /\ Gathered < MaxCandidates
    /\ pcs' = [pcs EXCEPT ![c][i].gathered = @ + 1]
    /\ IceCandidate(c, [type |-> "candidate", from |-> <<c, i>>, n |-> pcs[c][i].gathered + 1],
                    pcs[c][i].remotePeer)
    /\ Sent
    /\ UNCHANGED clicks
    /\ UNCHANGED <<callMode, screenStream, canvasStream, toggles, utilities>>
    /\ did' = [client |-> c, step |-> "onicecandidate"]
    /\ UNCHANGED <<currentRoom, remotePeerId, peerConnectionRef, dataChannelRef,
                   connectionState, remoteStream, localStream, tasks>>

\* The transport: two open connections that hold each other's description
\* and at least one of the other's candidates complete ICE.
IceCompletes(c, i, d, j) ==
    /\ c # d
    /\ i \in 1..Len(pcs[c])
    /\ j \in 1..Len(pcs[d])
    /\ LET a == pcs[c][i]
           b == pcs[d][j]
       IN /\ a.signalingState = "stable" /\ b.signalingState = "stable"
          /\ a.remoteFrom = <<d, j>> /\ b.remoteFrom = <<c, i>>
          /\ a.applied # << >> \/ b.applied # << >>
          /\ a.connectionState # "connected" \/ b.connectionState # "connected"
          /\ a.connectionState # "failed" /\ b.connectionState # "failed"
          /\ pcs' = [pcs EXCEPT
                       ![c][i] = IF a.connectionState = "connected" THEN a
                                 ELSE [a EXCEPT !.connectionState = "connected",
                                                !.stateEvent = TRUE],
                       ![d][j] = IF b.connectionState = "connected" THEN b
                                 ELSE [b EXCEPT !.connectionState = "connected",
                                                !.stateEvent = TRUE]]
    /\ UNCHANGED clicks
    /\ UNCHANGED <<callMode, screenStream, canvasStream, toggles, utilities>>
    /\ did' = [step |-> "ice"]
    /\ ServerIdle
    /\ UNCHANGED <<currentRoom, remotePeerId, peerConnectionRef, dataChannelRef,
                   connectionState, remoteStream, localStream, tasks, inbox>>

\* onconnectionstatechange that only logs the state (the body of
\* oniceconnectionstatechange): setConnectionState is not called.
OnConnectionStateChange_LogsOnly(c, i) ==
    /\ i \in 1..Len(pcs[c])
    /\ pcs[c][i].stateEvent
    /\ pcs' = [pcs EXCEPT ![c][i].stateEvent = FALSE]
    /\ UNCHANGED clicks
    /\ UNCHANGED <<callMode, screenStream, canvasStream, toggles, utilities>>
    /\ did' = [client |-> c, step |-> "onconnectionstatechange", pc |-> i]
    /\ ServerIdle
    /\ UNCHANGED <<currentRoom, remotePeerId, peerConnectionRef, dataChannelRef,
                   connectionState, remoteStream, localStream, tasks, inbox>>

\* pc.onconnectionstatechange
OnConnectionStateChange(c, i) ==
    /\ i \in 1..Len(pcs[c])
    /\ pcs[c][i].stateEvent
    /\ connectionState' = [connectionState EXCEPT ![c] = pcs[c][i].connectionState]
    /\ pcs' = [pcs EXCEPT ![c][i].stateEvent = FALSE]
    /\ UNCHANGED clicks
    /\ UNCHANGED <<callMode, screenStream, canvasStream, toggles, utilities>>
    /\ did' = [client |-> c, step |-> "onconnectionstatechange", pc |-> i]
    /\ ServerIdle
    /\ UNCHANGED <<currentRoom, remotePeerId, peerConnectionRef, dataChannelRef,
                   remoteStream, localStream, tasks, inbox>>

\* pc.ondatachannel (set by the 'offer' handler): the channel the remote
\* created arrives once the transport is connected.
OnDataChannel(c, i) ==
    /\ i \in 1..Len(pcs[c])
    /\ pcs[c][i].connectionState = "connected"
    /\ pcs[c][i].dc = "none"
    /\ LET from == pcs[c][i].remoteFrom
       IN pcs[from[1]][from[2]].dc = "open"
    /\ pcs' = [pcs EXCEPT ![c][i].dc = "open"]
    /\ dataChannelRef' = [dataChannelRef EXCEPT ![c] = i]
    /\ UNCHANGED clicks
    /\ UNCHANGED <<callMode, screenStream, canvasStream, toggles, utilities>>
    /\ did' = [client |-> c, step |-> "ondatachannel"]
    /\ ServerIdle
    /\ UNCHANGED <<currentRoom, remotePeerId, peerConnectionRef, connectionState,
                   remoteStream, localStream, tasks, inbox>>

\* startCall() from its own buttons, offered while no call is active, up to
\* `await getUserMedia`.
ClickStartCall(c, mode) ==
    /\ status[c] = "connected"
    /\ currentRoom[c] # null
    /\ ~localStream[c]
    /\ tasks' = [tasks EXCEPT ![c] = Append(@, Task("startCall", "getUserMedia", 0, null,
                                                      Constraints(mode)))]
    /\ Clicked
    /\ UNCHANGED <<callMode, screenStream, canvasStream, toggles, utilities>>
    /\ did' = [client |-> c, step |-> "startCall"]
    /\ ServerIdle
    /\ UNCHANGED <<currentRoom, remotePeerId, peerConnectionRef, dataChannelRef,
                   connectionState, remoteStream, localStream, pcs, inbox>>

\* endCall(), offered while a call is active: stops the local tracks and
\* cleans up.
ClickEndCall(c) ==
    /\ status[c] = "connected"
    /\ currentRoom[c] # null
    /\ localStream[c]
    /\ localStream' = [localStream EXCEPT ![c] = FALSE]
    /\ CleanedUp(c)
    /\ Clicked
    /\ isAudioEnabled' = [isAudioEnabled EXCEPT ![c] = TRUE]
    /\ isVideoEnabled' = [isVideoEnabled EXCEPT ![c] = TRUE]
    /\ trackEnabled' = [trackEnabled EXCEPT ![c] = AllEnabled]
    /\ UNCHANGED <<callMode, screenStream, canvasStream, utilities>>
    /\ did' = [client |-> c, step |-> "endCall"]
    /\ ServerIdle
    /\ UNCHANGED <<currentRoom, inbox>>

\* leaveRoom(): endCall() stops the local tracks and cleans up; the server
\* is not told.
LeaveRoom(c) ==
    /\ status[c] = "connected"
    /\ currentRoom[c] # null
    /\ localStream' = [localStream EXCEPT ![c] = FALSE]
    /\ CleanedUp(c)
    /\ currentRoom' = [currentRoom EXCEPT ![c] = null]
    /\ Clicked
    /\ isAudioEnabled' = [isAudioEnabled EXCEPT ![c] = TRUE]
    /\ isVideoEnabled' = [isVideoEnabled EXCEPT ![c] = TRUE]
    /\ trackEnabled' = [trackEnabled EXCEPT ![c] = AllEnabled]
    /\ UNCHANGED <<callMode, screenStream, canvasStream, utilities>>
    /\ did' = [client |-> c, step |-> "leaveRoom"]
    /\ ServerIdle
    /\ UNCHANGED inbox

\* The page is closed: the effect's cleanup disconnects the socket,
\* WebRTCStream's unmount cleanup stops its captures and the browser discards
\* the page with its connections.
ClosePage(c) ==
    /\ Disconnect(c)
    /\ inbox' = [q \in Clients |-> IF q = c THEN << >> ELSE inbox[q] \o Delivered(q)]
    /\ pcs' = [pcs EXCEPT ![c] = [i \in 1..Len(@) |-> ClosedPc(@[i])]]
    /\ tasks' = [tasks EXCEPT ![c] = << >>]
    /\ currentRoom' = [currentRoom EXCEPT ![c] = null]
    /\ remotePeerId' = [remotePeerId EXCEPT ![c] = null]
    /\ peerConnectionRef' = [peerConnectionRef EXCEPT ![c] = 0]
    /\ dataChannelRef' = [dataChannelRef EXCEPT ![c] = 0]
    /\ connectionState' = [connectionState EXCEPT ![c] = "disconnected"]
    /\ remoteStream' = [remoteStream EXCEPT ![c] = FALSE]
    /\ localStream' = [localStream EXCEPT ![c] = FALSE]
    /\ Clicked
    /\ callMode' = [callMode EXCEPT ![c] = "video"]
    /\ screenStream' = [screenStream EXCEPT ![c] = FALSE]
    /\ canvasStream' = [canvasStream EXCEPT ![c] = FALSE]
    /\ isAudioEnabled' = [isAudioEnabled EXCEPT ![c] = TRUE]
    /\ isVideoEnabled' = [isVideoEnabled EXCEPT ![c] = TRUE]
    /\ trackEnabled' = [trackEnabled EXCEPT ![c] = AllEnabled]
    /\ UNCHANGED utilities
    /\ did' = [client |-> c, step |-> "unload"]

\* The transport: ICE on a connection that is checking or connected fails;
\* the browser queues a connectionstatechange event.
IceFails(c, i) ==
    /\ i \in 1..Len(pcs[c])
    /\ pcs[c][i].connectionState \in {"connecting", "connected"}
    /\ pcs' = [pcs EXCEPT ![c][i].connectionState = "failed", ![c][i].stateEvent = TRUE]
    /\ UNCHANGED clicks
    /\ UNCHANGED <<callMode, screenStream, canvasStream, toggles, utilities>>
    /\ did' = [client |-> c, step |-> "icefailed", pc |-> i]
    /\ ServerIdle
    /\ UNCHANGED <<currentRoom, remotePeerId, peerConnectionRef, dataChannelRef,
                   connectionState, remoteStream, localStream, tasks, inbox>>

\* What a handler of WebRTCStream closes over: the peerConnection prop of
\* the render that created it.
Captured(pc) == [type |-> "closure", pc |-> pc]

\* WebRTCStream: `senders.find(sender => sender.track?.kind === 'video')`,
\* then replaceTrack on the sender found, addTrack when there is none.
VideoTrackSent(pc) ==
    IF pc.video > 0 THEN pc ELSE [pc EXCEPT !.video = 1, !.tracks = TRUE]

\* WebRTCStream.startScreenShare, offered while no screen is shared, up to
\* `await getDisplayMedia`.
ClickStartScreenShare(c) ==
    /\ status[c] = "connected"
    /\ ~screenStream[c]
    /\ tasks' = [tasks EXCEPT ![c] =
                   Append(@, Task("startScreenShare", "getDisplayMedia", 0, null,
                                  Captured(peerConnectionRef[c])))]
    /\ Clicked
    /\ UNCHANGED <<callMode, screenStream, canvasStream, toggles, utilities>>
    /\ did' = [client |-> c, step |-> "startScreenShare"]
    /\ ServerIdle
    /\ UNCHANGED <<currentRoom, remotePeerId, peerConnectionRef, dataChannelRef,
                   connectionState, remoteStream, localStream, pcs, inbox>>

\* startScreenShare: getDisplayMedia settles.  Granted: the capture is kept
\* and its video track goes to the connection of the closure; on a closed
\* connection that throws, and the catch block logs it.  Denied: the catch
\* block logs the error.
ResolveGetDisplayMedia(c, k, granted) ==
    /\ Resolvable(c, k, "getDisplayMedia")
    /\ LET t == tasks[c][k]
           pc == t.desc.pc
       IN /\ screenStream' = [screenStream EXCEPT ![c] = @ \/ granted]
          /\ pcs' = IF granted /\ pc # 0 /\ ~IsClosed(pcs[c][pc])
                    THEN [pcs EXCEPT ![c][pc] = VideoTrackSent(@)]
                    ELSE pcs
          /\ Finished(c, k)
          /\ UNCHANGED clicks
          /\ UNCHANGED <<callMode, canvasStream, toggles, utilities>>
          /\ did' = [client |-> c, step |-> "getDisplayMedia", ok |-> granted]
    /\ ServerIdle
    /\ UNCHANGED <<currentRoom, remotePeerId, peerConnectionRef, dataChannelRef,
                   connectionState, remoteStream, localStream, inbox>>

\* WebRTCStream.stopScreenShare, from its button or the browser's own stop
\* control: the capture's tracks are stopped.
ClickStopScreenShare(c) ==
    /\ status[c] = "connected"
    /\ screenStream[c]
    /\ screenStream' = [screenStream EXCEPT ![c] = FALSE]
    /\ Clicked
    /\ UNCHANGED <<callMode, canvasStream, toggles, utilities>>
    /\ did' = [client |-> c, step |-> "stopScreenShare"]
    /\ ServerIdle
    /\ UNCHANGED <<currentRoom, remotePeerId, peerConnectionRef, dataChannelRef,
                   connectionState, remoteStream, localStream, pcs, tasks, inbox>>

\* WebRTCStream.startCanvasStream, offered while no canvas is streamed:
\* canvas.captureStream, then the video track goes to the current connection.
ClickStartCanvasStream(c) ==
    /\ status[c] = "connected"
    /\ ~canvasStream[c]
    /\ canvasStream' = [canvasStream EXCEPT ![c] = TRUE]
    /\ pcs' = IF peerConnectionRef[c] # 0
              THEN [pcs EXCEPT ![c][peerConnectionRef[c]] = VideoTrackSent(@)]
              ELSE pcs
    /\ Clicked
    /\ UNCHANGED <<callMode, screenStream, toggles, utilities>>
    /\ did' = [client |-> c, step |-> "startCanvasStream"]
    /\ ServerIdle
    /\ UNCHANGED <<currentRoom, remotePeerId, peerConnectionRef, dataChannelRef,
                   connectionState, remoteStream, localStream, tasks, inbox>>

\* WebRTCStream.stopCanvasStream
ClickStopCanvasStream(c) ==
    /\ status[c] = "connected"
    /\ canvasStream[c]
    /\ canvasStream' = [canvasStream EXCEPT ![c] = FALSE]
    /\ Clicked
    /\ UNCHANGED <<callMode, screenStream, toggles, utilities>>
    /\ did' = [client |-> c, step |-> "stopCanvasStream"]
    /\ ServerIdle
    /\ UNCHANGED <<currentRoom, remotePeerId, peerConnectionRef, dataChannelRef,
                   connectionState, remoteStream, localStream, pcs, tasks, inbox>>

\* What the users, the sockets and the browsers of the clients can do next;
\* calls are started with the 'Video Call' buttons.
ClientNext ==
    \/ \E c \in Clients : Connect(c)
    \/ \E c \in Clients, r \in ClientRoomIds : ClickCreateRoom(c, r)
    \/ \E c \in Clients, r \in ClientRoomIds : ClickJoinRoom(c, r)
    \/ \E c \in Clients : OnAck(c)
    \/ \E c \in Clients : OnUserJoined(c)
    \/ \E c \in Clients : OnUserLeft(c)
    \/ \E c \in Clients : OnOffer(c)
    \/ \E c \in Clients : OnAnswer(c)
    \/ \E c \in Clients : OnIceCandidate(c)
    \/ \E c \in Clients : \E k \in DOMAIN tasks[c], rollback \in BOOLEAN :
         ResolveSetRemoteOffer(c, k, rollback)
    \/ \E c \in Clients : \E k \in DOMAIN tasks[c] : ResolveCreateAnswer(c, k)
    \/ \E c \in Clients : \E k \in DOMAIN tasks[c] : ResolveSetLocalAnswer(c, k)
    \/ \E c \in Clients : \E k \in DOMAIN tasks[c] : ResolveSetRemoteAnswer(c, k)
    \/ \E c \in Clients : \E k \in DOMAIN tasks[c] : ResolveAddIceCandidate(c, k)
    \/ \E c \in Clients : ClickCall(c, "video")
    \/ \E c \in Clients : \E k \in DOMAIN tasks[c], granted \in BOOLEAN :
         ResolveGetUserMedia(c, k, granted)
    \/ \E c \in Clients : \E k \in DOMAIN tasks[c] : ResolveCreateOffer(c, k)
    \/ \E c \in Clients : \E k \in DOMAIN tasks[c] : ResolveSetLocalOffer(c, k)
    \/ \E c \in Clients : \E i \in DOMAIN pcs[c] : OnIceCandidateGathered(c, i)
    \/ \E c \in Clients, d \in Clients : \E i \in DOMAIN pcs[c], j \in DOMAIN pcs[d] : IceCompletes(c, i, d, j)
    \/ \E c \in Clients : \E i \in DOMAIN pcs[c] : OnConnectionStateChange(c, i)
    \/ \E c \in Clients : \E i \in DOMAIN pcs[c] : OnDataChannel(c, i)
    \/ \E c \in Clients : ClickStartCall(c, "video")
    \/ \E c \in Clients : ClickEndCall(c)
    \/ \E c \in Clients : LeaveRoom(c)
    \/ \E c \in Clients : ClosePage(c)
    \/ \E c \in Clients : ClickStartScreenShare(c)
    \/ \E c \in Clients : \E k \in DOMAIN tasks[c], granted \in BOOLEAN :
         ResolveGetDisplayMedia(c, k, granted)
    \/ \E c \in Clients : ClickStopScreenShare(c)
    \/ \E c \in Clients : ClickStartCanvasStream(c)
    \/ \E c \in Clients : ClickStopCanvasStream(c)

\* Clients and server together.
SpecClient == Init /\ [][ClientNext]_allvars

\* No client has started a call yet.
FirstCall ==
    \A d \in Clients :
        /\ pcs[d] = << >>
        /\ \A k \in DOMAIN tasks[d] : tasks[d][k].handler # "initiateCall"

\* The two-peer scenario: nobody leaves, ends the call or closes the page,
\* and one call is started, with either kind of button.
ScenarioNext ==
    \/ \E c \in Clients : Connect(c)
    \/ \E c \in Clients, r \in ClientRoomIds : ClickCreateRoom(c, r)
    \/ \E c \in Clients, r \in ClientRoomIds : ClickJoinRoom(c, r)
    \/ \E c \in Clients : OnAck(c)
    \/ \E c \in Clients : OnUserJoined(c)
    \/ \E c \in Clients : OnOffer(c)
    \/ \E c \in Clients : OnAnswer(c)
    \/ \E c \in Clients : OnIceCandidate(c)
    \/ \E c \in Clients : \E k \in DOMAIN tasks[c], rollback \in BOOLEAN :
         ResolveSetRemoteOffer(c, k, rollback)
    \/ \E c \in Clients : \E k \in DOMAIN tasks[c] : ResolveCreateAnswer(c, k)
    \/ \E c \in Clients : \E k \in DOMAIN tasks[c] : ResolveSetLocalAnswer(c, k)
    \/ \E c \in Clients : \E k \in DOMAIN tasks[c] : ResolveSetRemoteAnswer(c, k)
    \/ \E c \in Clients : \E k \in DOMAIN tasks[c] : ResolveAddIceCandidate(c, k)
    \/ \E c \in Clients, mode \in CallModes : FirstCall /\ ClickCall(c, mode)
    \/ \E c \in Clients : \E k \in DOMAIN tasks[c], granted \in BOOLEAN :
         ResolveGetUserMedia(c, k, granted)
    \/ \E c \in Clients : \E k \in DOMAIN tasks[c] : ResolveCreateOffer(c, k)
    \/ \E c \in Clients : \E k \in DOMAIN tasks[c] : ResolveSetLocalOffer(c, k)
    \/ \E c \in Clients : \E i \in DOMAIN pcs[c] : OnIceCandidateGathered(c, i)
    \/ \E c \in Clients, d \in Clients : \E i \in DOMAIN pcs[c], j \in DOMAIN pcs[d] : IceCompletes(c, i, d, j)
    \/ \E c \in Clients : \E i \in DOMAIN pcs[c] : OnConnectionStateChange(c, i)
    \/ \E c \in Clients : \E i \in DOMAIN pcs[c] : OnDataChannel(c, i)
    \/ \E c \in Clients, mode \in CallModes : ClickStartCall(c, mode)

\* The browser's event loop runs every queued connectionstatechange event.
StateChangesHandled ==
    \A c \in Clients : WF_allvars(\E i \in DOMAIN pcs[c] : OnConnectionStateChange(c, i))

SpecScenario == Init /\ [][ScenarioNext]_allvars /\ StateChangesHandled

\* The failure scenario: no ICE candidate gets through and ICE may fail on
\* any connection; nobody leaves, ends the call or closes the page.
FailureNext ==
    \/ \E c \in Clients : Connect(c)
    \/ \E c \in Clients, r \in ClientRoomIds : ClickCreateRoom(c, r)
    \/ \E c \in Clients, r \in ClientRoomIds : ClickJoinRoom(c, r)
    \/ \E c \in Clients : OnAck(c)
    \/ \E c \in Clients : OnUserJoined(c)
    \/ \E c \in Clients : OnOffer(c)
    \/ \E c \in Clients : OnAnswer(c)
    \/ \E c \in Clients : \E k \in DOMAIN tasks[c], rollback \in BOOLEAN :
         ResolveSetRemoteOffer(c, k, rollback)
    \/ \E c \in Clients : \E k \in DOMAIN tasks[c] : ResolveCreateAnswer(c, k)
    \/ \E c \in Clients : \E k \in DOMAIN tasks[c] : ResolveSetLocalAnswer(c, k)
    \/ \E c \in Clients : \E k \in DOMAIN tasks[c] : ResolveSetRemoteAnswer(c, k)
    \/ \E c \in Clients : ClickCall(c, "video")
    \/ \E c \in Clients : \E k \in DOMAIN tasks[c], granted \in BOOLEAN :
         ResolveGetUserMedia(c, k, granted)
    \/ \E c \in Clients : \E k \in DOMAIN tasks[c] : ResolveCreateOffer(c, k)
    \/ \E c \in Clients : \E k \in DOMAIN tasks[c] : ResolveSetLocalOffer(c, k)
    \/ \E c \in Clients : \E i \in DOMAIN pcs[c] : OnConnectionStateChange(c, i)
    \/ \E c \in Clients : \E i \in DOMAIN pcs[c] : IceFails(c, i)

SpecFailure == Init /\ [][FailureNext]_allvars

\* A third participant of the room: another browser running the application,
\* seen through the messages its socket exchanges with the server.
Third == "p3"

\* What a step of the third participant leaves alone in the two clients.
ThirdParty(step) ==
    /\ Sent
    /\ UNCHANGED <<callMode, screenStream, canvasStream, toggles, utilities>>
    /\ did' = [client |-> Third, step |-> step]
    /\ UNCHANGED <<currentRoom, remotePeerId, peerConnectionRef, dataChannelRef,
                   connectionState, remoteStream, localStream, pcs, tasks>>

\* The third participant's page loads: io(SIGNALING_SERVER).
ThirdConnects ==
    /\ Connection(Third)
    /\ ThirdParty("third-connect")
    /\ UNCHANGED clicks

\* The third participant joins an existing room it is not in.
ThirdJoins(r) ==
    /\ Has(r)
    /\ roomId[Third] = undefined
    /\ JoinRoom(Third, r)
    /\ ThirdParty("third-join")
    /\ UNCHANGED clicks

\* The third participant, in a room, closes its page.
ThirdLeaves ==
    /\ roomId[Third] # undefined
    /\ Disconnect(Third)
    /\ ThirdParty("third-close")
    /\ UNCHANGED clicks

\* The third participant emits an answer or an ICE candidate of its first
\* connection to a participant of its room.
ThirdSends(kind, targetId) ==
    /\ roomId[Third] # undefined
    /\ Has(roomId[Third])
    /\ targetId \in Members(rooms[roomId[Third]].participants) \ {Third}
    /\ \/ /\ kind = "answer"
          /\ Answer(Third, [type |-> "answer", from |-> <<Third, 1>>, tracks |-> FALSE],
                    targetId)
       \/ /\ kind = "ice-candidate"
          /\ IceCandidate(Third, [type |-> "candidate", from |-> <<Third, 1>>, n |-> 1],
                          targetId)
    /\ ThirdParty("third-send")
    /\ Clicked

\* The room of three: the two clients exchange descriptions in one call,
\* their own ICE candidates are left out, nobody of the two leaves, and the
\* third participant joins, sends and leaves.
ThreeNext ==
    \/ \E c \in Clients : Connect(c)
    \/ \E c \in Clients, r \in ClientRoomIds : ClickCreateRoom(c, r)
    \/ \E c \in Clients, r \in ClientRoomIds : ClickJoinRoom(c, r)
    \/ \E c \in Clients : OnAck(c)
    \/ \E c \in Clients : OnUserJoined(c)
    \/ \E c \in Clients : OnUserLeft(c)
    \/ \E c \in Clients : OnOffer(c)
    \/ \E c \in Clients : OnAnswer(c)
    \/ \E c \in Clients : OnIceCandidate(c)
    \/ \E c \in Clients : \E k \in DOMAIN tasks[c], rollback \in BOOLEAN :
         ResolveSetRemoteOffer(c, k, rollback)
    \/ \E c \in Clients : \E k \in DOMAIN tasks[c] : ResolveCreateAnswer(c, k)
    \/ \E c \in Clients : \E k \in DOMAIN tasks[c] : ResolveSetLocalAnswer(c, k)
    \/ \E c \in Clients : \E k \in DOMAIN tasks[c] : ResolveSetRemoteAnswer(c, k)
    \/ \E c \in Clients : \E k \in DOMAIN tasks[c] : ResolveAddIceCandidate(c, k)
    \/ \E c \in Clients : FirstCall /\ ClickCall(c, "video")
    \/ \E c \in Clients : \E k \in DOMAIN tasks[c], granted \in BOOLEAN :
         ResolveGetUserMedia(c, k, granted)
    \/ \E c \in Clients : \E k \in DOMAIN tasks[c] : ResolveCreateOffer(c, k)
    \/ \E c \in Clients : \E k \in DOMAIN tasks[c] : ResolveSetLocalOffer(c, k)
    \/ \E c \in Clients : \E i \in DOMAIN pcs[c] : OnConnectionStateChange(c, i)
    \/ ThirdConnects
    \/ \E r \in ClientRoomIds : ThirdJoins(r)
    \/ ThirdLeaves
    \/ \E kind \in {"answer", "ice-candidate"}, targetId \in Clients : ThirdSends(kind, targetId)

SpecThree == Init /\ [][ThreeNext]_allvars

\* toggleMute(), offered while a call is active: every audio track of the
\* local stream flips its enabled flag and isAudioEnabled is negated.
ClickToggleMute(c) ==
    /\ status[c] = "connected"
    /\ currentRoom[c] # null
    /\ localStream[c]
    /\ trackEnabled' = [trackEnabled EXCEPT ![c].audio = ~@]
    /\ isAudioEnabled' = [isAudioEnabled EXCEPT ![c] = ~@]
    /\ Clicked
    /\ UNCHANGED <<callMode, screenStream, canvasStream, isVideoEnabled, utilities>>
    /\ did' = [client |-> c, step |-> "toggleMute"]
    /\ ServerIdle
    /\ UNCHANGED <<currentRoom, remotePeerId, peerConnectionRef, dataChannelRef,
                   connectionState, remoteStream, localStream, pcs, tasks, inbox>>

\* toggleVideo(), offered while a video call is active: every video track
\* of the local stream flips its enabled flag and isVideoEnabled is negated.
ClickToggleVideo(c) ==
    /\ status[c] = "connected"
    /\ currentRoom[c] # null
    /\ localStream[c]
    /\ callMode[c] = "video"
    /\ trackEnabled' = [trackEnabled EXCEPT ![c].video = ~@]
    /\ isVideoEnabled' = [isVideoEnabled EXCEPT ![c] = ~@]
    /\ Clicked
    /\ UNCHANGED <<callMode, screenStream, canvasStream, isAudioEnabled, utilities>>
    /\ did' = [client |-> c, step |-> "toggleVideo"]
    /\ ServerIdle
    /\ UNCHANGED <<currentRoom, remotePeerId, peerConnectionRef, dataChannelRef,
                   connectionState, remoteStream, localStream, pcs, tasks, inbox>>

\* The call controls: rooms, one call between the two clients without its
\* ICE candidates, start call, mute, video and end call.
ToggleNext ==
    \/ \E c \in Clients : Connect(c)
    \/ \E c \in Clients, r \in ClientRoomIds : ClickCreateRoom(c, r)
    \/ \E c \in Clients, r \in ClientRoomIds : ClickJoinRoom(c, r)
    \/ \E c \in Clients : OnAck(c)
    \/ \E c \in Clients : OnUserJoined(c)
    \/ \E c \in Clients : OnOffer(c)
    \/ \E c \in Clients : OnAnswer(c)
    \/ \E c \in Clients : \E k \in DOMAIN tasks[c], rollback \in BOOLEAN :
         ResolveSetRemoteOffer(c, k, rollback)
    \/ \E c \in Clients : \E k \in DOMAIN tasks[c] : ResolveCreateAnswer(c, k)
    \/ \E c \in Clients : \E k \in DOMAIN tasks[c] : ResolveSetLocalAnswer(c, k)
    \/ \E c \in Clients : \E k \in DOMAIN tasks[c] : ResolveSetRemoteAnswer(c, k)
    \/ \E c \in Clients : FirstCall /\ ClickCall(c, "video")
    \/ \E c \in Clients : \E k \in DOMAIN tasks[c], granted \in BOOLEAN :
         ResolveGetUserMedia(c, k, granted)
    \/ \E c \in Clients : \E k \in DOMAIN tasks[c] : ResolveCreateOffer(c, k)
    \/ \E c \in Clients : \E k \in DOMAIN tasks[c] : ResolveSetLocalOffer(c, k)
    \/ \E c \in Clients : \E i \in DOMAIN pcs[c] : OnConnectionStateChange(c, i)
    \/ \E c \in Clients, mode \in CallModes : ClickStartCall(c, mode)
    \/ \E c \in Clients : ClickEndCall(c)
    \/ \E c \in Clients : ClickToggleMute(c)
    \/ \E c \in Clients : ClickToggleVideo(c)

SpecToggle == Init /\ [][ToggleNext]_allvars

----------------------------------------------------------------------------
\* useWebRTC.startMedia with the utilities getUserMedia and handleWebRTCError
\* (utils/webrtc.js).  A string is modelled by the sequence of its words, so
\* that toLowerCase and includes do what they do on the text.

\* The state of App, which the utilities and the hook do not touch.
appvars == <<currentRoom, remotePeerId, peerConnectionRef, dataChannelRef, connectionState,
             remoteStream, localStream, pcs, tasks, inbox, did, clicks,
             callMode, screenStream, canvasStream, toggles>>

\* String.prototype.toLowerCase on a word.
toLowerCase(word) ==
    CASE word = "NotAllowedError" -> "notallowederror"
      [] word = "PermissionDeniedError" -> "permissiondeniederror"
      [] word = "NotFoundError" -> "notfounderror"
      [] word = "NotReadableError" -> "notreadableerror"
      [] word = "OverconstrainedError" -> "overconstrainederror"
      [] word = "AbortError" -> "aborterror"
      [] word = "Error" -> "error"
      [] word = "Permission" -> "permission"
      [] word = "Requested" -> "requested"
      [] word = "The" -> "the"
      [] word = "Could" -> "could"
      [] word = "Starting" -> "starting"
      [] OTHER -> word

\* toLowerCase on a text.
LowerCased(text) == [i \in DOMAIN text |-> toLowerCase(text[i])]

\* String.prototype.includes
Includes(text, phrase) ==
    \E i \in 0..(Len(text) - Len(phrase)) : SubSeq(text, i + 1, i + Len(phrase)) = phrase

\* The names and messages of the DOMExceptions navigator.mediaDevices.getUserMedia
\* rejects with; the message text belongs to the browser.
ErrorNames ==
    {"NotAllowedError", "PermissionDeniedError", "NotFoundError", "NotReadableError",
     "OverconstrainedError", "AbortError"}

Messages ==
    {<<"Permission", "denied">>,
     <<"Permission", "denied", "by", "system">>,
     <<"The", "request", "is", "not", "allowed", "by", "the", "user", "agent">>,
     <<"Requested", "device", "not", "found">>,
     <<"The", "object", "can", "not", "be", "found", "here">>,
     <<"Could", "not", "start", "video", "source">>,
     <<"Starting", "videoinput", "failed">>,
     << >>}

BrowserErrors == [name : ErrorNames, message : Messages]

ErrorTypes ==
    {"MEDIA_PERMISSION_DENIED", "MEDIA_DEVICE_NOT_FOUND", "PEER_CONNECTION_FAILED",
     "SIGNALING_ERROR", "ICE_GATHERING_FAILED", "NETWORK_ERROR", "UNKNOWN_ERROR"}

ERROR_MESSAGES ==
    [type \in ErrorTypes |->
        CASE type = "MEDIA_PERMISSION_DENIED" ->
               [title |-> "Permission Denied",
                message |-> "Please allow access to your camera and microphone to continue.",
                action |-> "Check browser permissions and try again."]
          [] type = "MEDIA_DEVICE_NOT_FOUND" ->
               [title |-> "Device Not Found",
                message |-> "No camera or microphone found.",
                action |-> "Please connect a camera/microphone and refresh the page."]
          [] type = "PEER_CONNECTION_FAILED" ->
               [title |-> "Connection Failed",
                message |-> "Unable to establish peer connection.",
                action |-> "Check your network connection and try again."]
          [] type = "SIGNALING_ERROR" ->
               [title |-> "Signaling Error",
                message |-> "Unable to communicate with signaling server.",
                action |-> "Please check if the server is running and try again."]
          [] type = "ICE_GATHERING_FAILED" ->
               [title |-> "NAT Traversal Failed",
                message |-> "Unable to find a network path to the peer.",
                action |-> "Your network may require a TURN server. Contact support."]
          [] type = "NETWORK_ERROR" ->
               [title |-> "Network Error",
                message |-> "Network connectivity issue detected.",
                action |-> "Check your internet connection and try again."]
          [] OTHER ->
               [title |-> "Unknown Error",
                message |-> "An unexpected error occurred.",
                action |-> "Please try again or contact support."]]

\* parseError(error) for an error object
parseError(error) ==
    LET errorName == toLowerCase(error.name)
        errorMessage == LowerCased(error.message)
    IN IF errorName = "notallowederror" \/ errorName = "permissiondeniederror"
       THEN "MEDIA_PERMISSION_DENIED"
       ELSE IF errorName = "notfounderror"
               \/ Includes(errorMessage, <<"device", "not", "found">>)
       THEN "MEDIA_DEVICE_NOT_FOUND"
       ELSE IF Includes(errorMessage, <<"network">>) \/ Includes(errorMessage, <<"connection">>)
       THEN "NETWORK_ERROR"
       ELSE IF Includes(errorMessage, <<"signaling">>) \/ Includes(errorMessage, <<"socket">>)
       THEN "SIGNALING_ERROR"
       ELSE "UNKNOWN_ERROR"

\* getErrorMessage(error) for an error object
getErrorMessage(error) == ERROR_MESSAGES[parseError(error)]

\* new Error(message)
NewError(message) == [name |-> "Error", message |-> message]

\* startMedia(mode) up to `await getUserMedia(constraints)`
StartMedia(mode) ==
    /\ startMedia.step = "idle"
    /\ startMedia' = [step |-> "getUserMedia", mode |-> mode]
    /\ UNCHANGED <<vars, appvars, retry, signaling, hook>>

\* The utility getUserMedia: the browser grants the stream.
GetUserMediaResolves ==
    /\ startMedia.step = "getUserMedia"
    /\ startMedia' = [step |-> "result", mode |-> startMedia.mode,
                      result |-> [success |-> TRUE]]
    /\ UNCHANGED <<vars, appvars, retry, signaling, hook>>

\* The utility getUserMedia: the browser rejects with `error`, the catch
\* block turns it into a result.
GetUserMediaRejects(error) ==
    /\ startMedia.step = "getUserMedia"
    /\ startMedia' = [step |-> "result", mode |-> startMedia.mode, thrown |-> error,
                      result |-> [success |-> FALSE, error |-> error.message,
                                  errorType |-> error.name]]
    /\ UNCHANGED <<vars, appvars, retry, signaling, hook>>

\* startMedia after the await: a failed result goes to handleWebRTCError,
\* which logs the title, message and action of getErrorMessage, and the raw
\* message is returned.
StartMediaReturns ==
    /\ startMedia.step = "result"
    /\ startMedia' =
         IF startMedia.result.success
         THEN [step |-> "returned", mode |-> startMedia.mode,
               returned |-> [success |-> TRUE]]
         ELSE [step |-> "returned", mode |-> startMedia.mode, thrown |-> startMedia.thrown,
               logged |-> getErrorMessage(NewError(startMedia.result.error)),
               returned |-> [success |-> FALSE, error |-> startMedia.result.error]]
    /\ UNCHANGED <<vars, appvars, retry, signaling, hook>>

MediaNext ==
    \/ \E mode \in CallModes : StartMedia(mode)
    \/ GetUserMediaResolves
    \/ \E error \in BrowserErrors : GetUserMediaRejects(error)
    \/ StartMediaReturns

\* One call of the hook's startMedia with any outcome of the browser.
SpecMedia == Init /\ [][MediaNext]_allvars

----------------------------------------------------------------------------
\* retryOperation (utils/webrtc.js): one call, with any outcome of every
\* invocation of `operation`.

\* Bound on the maxRetries argument.
MaxRetries == 3

\* The delay argument, in milliseconds.
Delays == {100, 1000}

\* What `operation` resolves with.
Values == {"v1", "v2"}

\* What `operation` rejects with.
Errors == {"e1", "e2"}

\* retryOperation(operation, maxRetries, delay, onRetry) up to its first
\* await: `let lastError`, the loop test with i = 0 and, if it passes, the
\* first `await operation()`; with maxRetries = 0 the loop is skipped and
\* `throw lastError` throws undefined.
RetryOperation(maxRetries, delay, onRetry) ==
    /\ retry.step = "idle"
    /\ retry' = [step |-> IF 0 < maxRetries THEN "operation" ELSE "thrown",
                 maxRetries |-> maxRetries, delay |-> delay, onRetry |-> onRetry,
                 i |-> 0, invoked |-> IF 0 < maxRetries THEN 1 ELSE 0,
                 lastError |-> undefined, failed |-> << >>, retried |-> << >>,
                 timer |-> 0, result |-> undefined]
    /\ UNCHANGED <<vars, appvars, startMedia, signaling, hook>>

\* `return await operation()`: the invocation resolves.
OperationResolves(value) ==
    /\ retry.step = "operation"
    /\ retry' = [retry EXCEPT !.step = "returned", !.result = value]
    /\ UNCHANGED <<vars, appvars, startMedia, signaling, hook>>

\* The catch block with `if (i < maxRetries)`: the last failure is followed
\* by onRetry and a timeout as well.
OperationRejects_RetriesLast(error) ==
    /\ retry.step = "operation"
    /\ retry' = IF retry.i < retry.maxRetries
                THEN [retry EXCEPT !.step = "timeout",
                                   !.lastError = error,
                                   !.failed = Append(@, error),
                                   !.retried = IF retry.onRetry
                                               THEN Append(@, <<retry.i + 1, retry.maxRetries>>)
                                               ELSE @,
                                   !.timer = retry.delay * (retry.i + 1)]
                ELSE [retry EXCEPT !.step = "thrown",
                                   !.lastError = error,
                                   !.failed = Append(@, error),
                                   !.i = @ + 1,
                                   !.result = error]
    /\ UNCHANGED <<vars, appvars, startMedia, signaling, hook>>

\* The catch block: the invocation rejects with `error`.  Before the last
\* attempt onRetry(i + 1, maxRetries) is called if given and the function
\* sleeps delay * (i + 1); after the last attempt i++ ends the loop and
\* lastError is thrown.
OperationRejects(error) ==
    /\ retry.step = "operation"
    /\ retry' = IF retry.i < retry.maxRetries - 1
                THEN [retry EXCEPT !.step = "timeout",
                                   !.lastError = error,
                                   !.failed = Append(@, error),
                                   !.retried = IF retry.onRetry
                                               THEN Append(@, <<retry.i + 1, retry.maxRetries>>)
                                               ELSE @,
                                   !.timer = retry.delay * (retry.i + 1)]
                ELSE [retry EXCEPT !.step = "thrown",
                                   !.lastError = error,
                                   !.failed = Append(@, error),
                                   !.i = @ + 1,
                                   !.result = error]
    /\ UNCHANGED <<vars, appvars, startMedia, signaling, hook>>

\* The timeout of the catch block fires: i++, the loop test, and the next
\* `await operation()` or `throw lastError`.
TimeoutFires ==
    /\ retry.step = "timeout"
    /\ retry' = IF retry.i + 1 < retry.maxRetries
                THEN [retry EXCEPT !.step = "operation", !.i = @ + 1,
                                   !.invoked = @ + 1, !.timer = 0]
                ELSE [retry EXCEPT !.step = "thrown", !.i = @ + 1, !.timer = 0,
                                   !.result = retry.lastError]
    /\ UNCHANGED <<vars, appvars, startMedia, signaling, hook>>

\* The promise of the pending invocation settles.
OperationSettles ==
    \/ \E value \in Values : OperationResolves(value)
    \/ \E error \in Errors : OperationRejects(error)

RetryNext ==
    \/ \E maxRetries \in 0..MaxRetries, delay \in Delays, onRetry \in BOOLEAN :
         RetryOperation(maxRetries, delay, onRetry)
    \/ \E value \in Values : OperationResolves(value)
    \/ \E error \in Errors : OperationRejects(error)
    \/ TimeoutFires

\* Every invocation of `operation` settles and every timeout fires.
RetryFairness == WF_allvars(OperationSettles) /\ WF_allvars(TimeoutFires)

\* One call of retryOperation.
SpecRetry == Init /\ [][RetryNext]_allvars /\ RetryFairness

----------------------------------------------------------------------------
\* SignalingClient (utils/signaling.js): one object, its socket talking to
\* the server above, next to another participant's socket.

\* Bound on the method calls made on one SignalingClient (createRoom,
\* joinRoom, getRoomInfo, sendOffer, sendAnswer, sendIceCandidate) and on
\* one useWebRTC hook (initializePeerConnection, startMedia, stopMedia,
\* cleanup).
MaxCalls == 4

\* The socket id io() gets for the SignalingClient, and the other participant.
Own == "p1"

Other == "p2"

\* The methods that return a promise.
Requests == {"createRoom", "joinRoom", "getRoomInfo"}

NotConnected == "Not connected to signaling server"

\* connect(): this.socket = io(serverUrl); the promise resolves with the
\* socket id on 'connect'.  A socket id is issued once, so the object
\* connects once.
SignalingConnect ==
    /\ signaling.socket = null
    /\ Connection(Own)
    /\ signaling' = [signaling EXCEPT
                       !.socket = Own,
                       !.last = [method |-> "connect", outcome |-> "resolved", value |-> Own]]
    /\ UNCHANGED <<appvars, startMedia, retry, hook>>

\* disconnect(): the socket is disconnected and dropped; callbacks still
\* waiting for the server's answer are never called.
SignalingDisconnect ==
    /\ signaling.socket # null
    /\ Disconnect(signaling.socket)
    /\ signaling' = [signaling EXCEPT
                       !.socket = null,
                       !.acks = << >>,
                       !.last = [method |-> "disconnect", outcome |-> "returned"]]
    /\ UNCHANGED <<appvars, startMedia, retry, hook>>

\* createRoom(roomId), joinRoom(roomId), getRoomInfo(roomId): without a
\* socket the promise rejects at once, otherwise the event is emitted with
\* the callback that will settle the promise.
SignalingRequest(method, r) ==
    /\ signaling.calls < MaxCalls
    /\ IF signaling.socket = null
       THEN /\ signaling' = [signaling EXCEPT
                               !.calls = @ + 1,
                               !.last = [method |-> method, outcome |-> "rejected",
                                         message |-> NotConnected]]
            /\ UNCHANGED vars
       ELSE /\ \/ method = "createRoom" /\ CreateRoom(signaling.socket, r)
               \/ method = "joinRoom" /\ JoinRoom(signaling.socket, r)
               \/ method = "getRoomInfo" /\ GetRoomInfo(signaling.socket, r)
            /\ signaling' = [signaling EXCEPT
                               !.calls = @ + 1,
                               !.acks = Append(@, [method |-> method, response |-> response']),
                               !.last = [method |-> method, outcome |-> "pending"]]
    /\ UNCHANGED <<appvars, startMedia, retry, hook>>

\* sendOffer, sendAnswer, sendIceCandidate: without a socket the method
\* throws, otherwise the event is emitted.
SignalingSend(kind, payload, targetId) ==
    /\ signaling.calls < MaxCalls
    /\ IF signaling.socket = null
       THEN /\ signaling' = [signaling EXCEPT
                               !.calls = @ + 1,
                               !.last = [method |-> kind, outcome |-> "thrown",
                                         message |-> NotConnected]]
            /\ UNCHANGED vars
       ELSE /\ Relay(kind, signaling.socket, payload, targetId)
            /\ signaling' = [signaling EXCEPT
                               !.calls = @ + 1,
                               !.last = [method |-> kind, outcome |-> "returned"]]
    /\ UNCHANGED <<appvars, startMedia, retry, hook>>

\* The callback that resolves with whatever the server answered.
SignalingAck_AlwaysResolves ==
    /\ signaling.acks # << >>
    /\ LET ack == Head(signaling.acks)
       IN signaling' = [signaling EXCEPT
                          !.acks = Tail(@),
                          !.last = [method |-> ack.method, outcome |-> "resolved",
                                    value |-> ack.response]]
    /\ UNCHANGED <<vars, appvars, startMedia, retry, hook>>

\* The callback passed to emit: response.success ? resolve(response)
\* : reject(new Error(response.message)).
SignalingAck ==
    /\ signaling.acks # << >>
    /\ LET ack == Head(signaling.acks)
       IN signaling' = [signaling EXCEPT
                          !.acks = Tail(@),
                          !.last = IF ack.response.success
                                   THEN [method |-> ack.method, outcome |-> "resolved",
                                         value |-> ack.response]
                                   ELSE [method |-> ack.method, outcome |-> "rejected",
                                         message |-> ack.response.message]]
    /\ UNCHANGED <<vars, appvars, startMedia, retry, hook>>

\* The other participant's socket connects, creates or joins a room, or
\* disconnects.
OtherSocket ==
    /\ \/ Connection(Other)
       \/ \E r \in ClientRoomIds : CreateRoom(Other, r)
       \/ \E r \in ClientRoomIds : JoinRoom(Other, r)
       \/ Disconnect(Other)
    /\ UNCHANGED cvars

SignalingNext ==
    \/ SignalingConnect
    \/ SignalingDisconnect
    \/ \E method \in Requests, r \in ClientRoomIds : SignalingRequest(method, r)
    \/ \E kind \in RelayKinds, payload \in Payloads, targetId \in {Own, Other} :
         SignalingSend(kind, payload, targetId)
    \/ SignalingAck
    \/ OtherSocket

\* One SignalingClient and the server.
SpecSignaling == Init /\ [][SignalingNext]_allvars

----------------------------------------------------------------------------
\* The useWebRTC hook (App.jsx:827-1093): initializePeerConnection,
\* startMedia, stopMedia, cleanup and the connection state callback.  The
\* connections the hook created are numbered in creation order, the streams
\* getUserMedia granted in the order they were granted; 0 is the null ref.

\* createPeerConnection(...) with the tracks of `stream` added, if any.
CreatedPeerConnection(stream) ==
    [closed |-> FALSE, connectionState |-> "new",
     senders |-> IF stream # 0 THEN <<stream>> ELSE << >>]

\* The hook after one more call of the given method.
Called(method) == [hook EXCEPT !.calls = @ + 1, !.last = method]

\* initializePeerConnection without the `if (peerConnectionRef.current)` return.
InitializePeerConnection_AlwaysCreates ==
    /\ hook.calls < MaxCalls
    /\ hook' = [Called("initializePeerConnection") EXCEPT
                  !.pcs = Append(@, CreatedPeerConnection(hook.localStreamRef)),
                  !.peerConnectionRef = Len(hook.pcs) + 1,
                  !.returned = Len(hook.pcs) + 1]
    /\ UNCHANGED <<vars, appvars, startMedia, retry, signaling>>

\* initializePeerConnection(): the existing connection is returned if there
\* is one; otherwise a connection is created, the tracks of the local stream
\* are added to it if there is one, and it becomes the current connection.
InitializePeerConnection ==
    /\ hook.calls < MaxCalls
    /\ hook' = IF hook.peerConnectionRef # 0
               THEN [Called("initializePeerConnection") EXCEPT
                       !.returned = hook.peerConnectionRef]
               ELSE [Called("initializePeerConnection") EXCEPT
                       !.pcs = Append(@, CreatedPeerConnection(hook.localStreamRef)),
                       !.peerConnectionRef = Len(hook.pcs) + 1,
                       !.returned = Len(hook.pcs) + 1]
    /\ UNCHANGED <<vars, appvars, startMedia, retry, signaling>>

\* startMedia(mode) up to `await getUserMedia(constraints)`.
HookStartMedia ==
    /\ hook.calls < MaxCalls
    /\ hook' = [Called("startMedia") EXCEPT !.pending = @ + 1]
    /\ UNCHANGED <<vars, appvars, startMedia, retry, signaling>>

\* startMedia after the await: a granted stream becomes the local stream and
\* its tracks are added to the current connection if there is one; a failed
\* result is logged and returned.
HookGetUserMediaSettles(granted) ==
    /\ hook.pending > 0
    /\ hook' = IF granted
               THEN LET stream == hook.streams + 1
                        ref == hook.peerConnectionRef
                    IN [hook EXCEPT
                          !.pending = @ - 1,
                          !.streams = stream,
                          !.localStreamRef = stream,
                          !.pcs = IF ref # 0
                                  THEN [@ EXCEPT ![ref].senders = Append(@, stream)]
                                  ELSE @,
                          !.last = "getUserMedia"]
               ELSE [hook EXCEPT !.pending = @ - 1, !.last = "getUserMedia"]
    /\ UNCHANGED <<vars, appvars, startMedia, retry, signaling>>

\* stopMedia(): the local stream, if any, is stopped and dropped.
HookStopMedia ==
    /\ hook.calls < MaxCalls
    /\ hook' = [Called("stopMedia") EXCEPT !.localStreamRef = 0]
    /\ UNCHANGED <<vars, appvars, startMedia, retry, signaling>>

\* cleanup(): stopMedia(), the current connection is closed and dropped,
\* the remote stream is cleared and connectionState is set to 'new'.
HookCleanup ==
    /\ hook.calls < MaxCalls
    /\ hook' = [Called("cleanup") EXCEPT
                  !.localStreamRef = 0,
                  !.pcs = [i \in 1..Len(@) |->
                             IF i = hook.peerConnectionRef
                             THEN [@[i] EXCEPT !.closed = TRUE, !.connectionState = "closed"]
                             ELSE @[i]],
                  !.peerConnectionRef = 0,
                  !.connectionState = "new"]
    /\ UNCHANGED <<vars, appvars, startMedia, retry, signaling>>

\* The states an open connection moves through.
NextConnectionStates(state) ==
    CASE state = "new" -> {"connecting"}
      [] state = "connecting" -> {"connected", "failed"}
      [] state = "connected" -> {"disconnected", "failed"}
      [] state = "disconnected" -> {"connected", "failed"}
      [] OTHER -> {}

\* pc.onconnectionstatechange of createPeerConnection, which calls
\* handleConnectionStateChange(pc.connectionState): a closed connection
\* fires no event.
HookConnectionStateChange(i, state) ==
    /\ i \in 1..Len(hook.pcs)
    /\ ~hook.pcs[i].closed
    /\ state \in NextConnectionStates(hook.pcs[i].connectionState)
    /\ hook' = [hook EXCEPT !.pcs[i].connectionState = state,
                            !.connectionState = state,
                            !.last = "onconnectionstatechange"]
    /\ UNCHANGED <<vars, appvars, startMedia, retry, signaling>>

HookNext ==
    \/ InitializePeerConnection
    \/ HookStartMedia
    \/ \E granted \in BOOLEAN : HookGetUserMediaSettles(granted)
    \/ HookStopMedia
    \/ HookCleanup
    \/ \E i \in DOMAIN hook.pcs :
         \E state \in {"connecting", "connected", "disconnected", "failed"} :
           HookConnectionStateChange(i, state)

\* One useWebRTC hook.
SpecHook == Init /\ [][HookNext]_allvars

----------------------------------------------------------------------------
\* Vocabulary of the properties

IsRelay(h) == h.event \in RelayKinds

\* The rooms whose participant list names p.
RoomsListing(p) == {r \in DOMAIN rooms : p \in Members(rooms[r].participants)}

\* The events of one kind the last handler delivered to socket q.
Received(q, kind) == {e \in emitted : e.to = q /\ e.event = kind}

\* The server state proper: room map, socket tags, adapter rooms, transports.
server == <<status, rooms, roomId, adapter>>

----------------------------------------------------------------------------
\* C1: create-room on a roomId that is not in the room map succeeds with
\* participantCount 1 and leaves the room's participant list equal to
\* <<caller>>; create-room on a roomId that is in the room map (whoever
\* created it) answers failure 'Room already exists'.
C1_CreateRoom ==
    [][handled'.event = "create-room" =>
         LET p == handled'.socket
             r == handled'.roomId
         IN IF r \in DOMAIN rooms
            THEN response' = [to |-> p, success |-> FALSE, message |-> "Room already exists"]
            ELSE /\ response'.to = p
                 /\ response'.success
                 /\ response'.participantCount = 1
                 /\ r \in DOMAIN rooms'
                 /\ rooms'[r].participants = <<p>>]_vars

\* A second create-room for an existing room, sent by another participant
\* than the one who created it, has just been refused.
C1_Witness ==
    /\ handled.event = "create-room"
    /\ response.success = FALSE
    /\ response.message = "Room already exists"
    /\ Has(handled.roomId)
    /\ Len(rooms[handled.roomId].participants) = 1
    /\ rooms[handled.roomId].participants[1] # handled.socket

\* C2: join-room by B on an existing room with participant list L, B not in
\* L, answers success with existingParticipants = L and participantCount =
\* |L|+1; every member of L receives exactly one user-joined{B, |L|+1}, and
\* nobody else (B included) receives a user-joined.
C2_JoinRoom ==
    [][(/\ handled'.event = "join-room"
        /\ handled'.roomId \in DOMAIN rooms
        /\ handled'.socket \notin Members(rooms[handled'.roomId].participants)) =>
         LET B == handled'.socket
             L == rooms[handled'.roomId].participants
         IN /\ response'.to = B
            /\ response'.success
            /\ response'.existingParticipants = L
            /\ response'.participantCount = Len(L) + 1
            /\ \A q \in PeerIds :
                 Received(q, "user-joined")' =
                   IF q \in Members(L)
                   THEN {[to |-> q, event |-> "user-joined", userId |-> B,
                          participantCount |-> Len(L) + 1]}
                   ELSE {}]_vars

\* C3: a failing create-room, join-room or get-room-info answers the caller
\* only: room map, socket tags, adapter rooms and transports are as before
\* the call and no event is emitted to anybody.
C3_FailureIsLocal ==
    [][(/\ handled'.event \in {"create-room", "join-room", "get-room-info"}
        /\ response'.success = FALSE) =>
         /\ response'.to = handled'.socket
         /\ emitted' = {}
         /\ rooms' = rooms
         /\ roomId' = roomId
         /\ adapter' = adapter
         /\ status' = status]_vars

\* A join-room for a missing room has just been refused while another
\* participant sits in a room (so there is somebody an event could reach).
C3_Witness ==
    /\ handled.event = "join-room"
    /\ response.success = FALSE
    /\ \E r \in DOMAIN rooms, q \in PeerIds \ {handled.socket} :
         q \in Members(rooms[r].participants) /\ status[q] = "connected"

\* C4: when one of the two participants of a room disconnects, the other one
\* receives exactly one user-left, carrying the leaver's id and
\* participantCount 1, and the room still exists with the other one as its
\* only member.
C4_LeaveOfTwo ==
    [][handled'.event = "disconnect" =>
         \A r \in DOMAIN rooms, q \in PeerIds :
           LET p == handled'.socket
           IN (/\ q # p
               /\ Len(rooms[r].participants) = 2
               /\ Members(rooms[r].participants) = {p, q}) =>
                /\ Received(q, "user-left")' =
                     {[to |-> q, event |-> "user-left", userId |-> p,
                       participantCount |-> 1]}
                /\ r \in DOMAIN rooms'
                /\ rooms'[r].participants = <<q>>]_vars

\* C5: when the only participant of a room disconnects, the room leaves the
\* room map in that step; and a get-room-info for a roomId that is not in
\* the room map fails with 'Room not found'.
C5_LastLeaveDeletes ==
    [][/\ handled'.event = "disconnect" =>
            \A r \in DOMAIN rooms :
              Members(rooms[r].participants) = {handled'.socket} => r \notin DOMAIN rooms'
       /\ (handled'.event = "get-room-info" /\ handled'.roomId \notin DOMAIN rooms) =>
            response' = [to |-> handled'.socket, success |-> FALSE,
                         message |-> "Room not found"]]_vars

\* C6: no room in the room map has an empty participant list.
C6_NoEmptyRoom ==
    \A r \in DOMAIN rooms : Len(rooms[r].participants) > 0

\* A disconnect has just removed the last participant of the socket's room,
\* and the room is gone.
C6_Witness ==
    /\ handled.event = "disconnect"
    /\ roomId[handled.socket] # undefined
    /\ ~Has(roomId[handled.socket])
    /\ emitted = {}

\* C7: each participant identifier is in the participant list of at most one
\* room.
C7_OneMembership ==
    \A p \in PeerIds : Cardinality(RoomsListing(p)) <= 1

\* C8: after a participant's transport disconnects, its identifier is in no
\* participant list, every remaining connected member of each room that
\* listed it has received a user-left for it, and each room the removal left
\* empty has been deleted.
C8_DisconnectRemoves ==
    [][\A p \in PeerIds :
         (handled'.event = "disconnect" /\ handled'.socket = p) =>
            /\ RoomsListing(p)' = {}
            /\ \A r \in RoomsListing(p) :
                 LET rest == Members(rooms[r].participants) \ {p}
                 IN /\ \A q \in rest :
                         status[q] = "connected" =>
                           \E e \in Received(q, "user-left")' : e.userId = p
                    /\ rest = {} => r \notin DOMAIN rooms']_vars

\* C9: a relayed offer, answer or ice-candidate sent by S to a connected
\* participant T is delivered to T and to nobody else, with the payload as
\* sent and senderId = S, and the room map is unchanged.
C9_RelayToTargetOnly ==
    [][(/\ IsRelay(handled')
        /\ handled'.targetId \in PeerIds
        /\ status[handled'.targetId] = "connected") =>
         /\ emitted' = {[to |-> handled'.targetId, event |-> handled'.event,
                         payload |-> handled'.payload, senderId |-> handled'.socket]}
         /\ rooms' = rooms]_vars

\* C10: a relay whose targetId holds no open transport is dropped: nobody
\* receives anything, the sender gets no response, server state is
\* unchanged, and a socket that connects later receives nothing.
C10_UnreachableDropped ==
    [][/\ (/\ IsRelay(handled')
           /\ ~(handled'.targetId \in PeerIds /\ status[handled'.targetId] = "connected")) =>
            /\ emitted' = {}
            /\ response' = NoResponse
            /\ server' = server
       /\ handled'.event = "connection" => emitted' = {}]_vars

\* C11: get-room-info on an existing room answers participantCount = length
\* of the room's participant list and participants = that list, in join
\* order; on a missing room it fails with 'Room not found'; in both cases
\* the room map is unchanged.
C11_GetRoomInfo ==
    [][handled'.event = "get-room-info" =>
         LET r == handled'.roomId
         IN /\ rooms' = rooms
            /\ response'.to = handled'.socket
            /\ IF r \in DOMAIN rooms
               THEN /\ response'.success
                    /\ response'.participantCount = Len(rooms[r].participants)
                    /\ response'.participants = rooms[r].participants
               ELSE /\ response'.success = FALSE
                    /\ response'.message = "Room not found"]_vars

\* A member of a room with two participants has just queried it.
C11_Witness ==
    /\ handled.event = "get-room-info"
    /\ response.success
    /\ response.participantCount = 2
    /\ handled.socket \in Members(response.participants)

\* C12: two create-room requests for the same roomId from two different
\* participants, handled one right after the other in either order: never
\* both succeed; when the room did not exist the first handled succeeds, the
\* other fails with 'Room already exists', and the room's participant list
\* is exactly <<winner>>.
C12_CreateRace ==
    [][(/\ handled'.event = "create-room"
        /\ handled'.roomId \notin DOMAIN rooms => response'.success)
       /\ (/\ handled.event = "create-room"
           /\ handled'.event = "create-room"
           /\ handled.roomId = handled'.roomId
           /\ handled.socket # handled'.socket
           /\ response.success) =>
            /\ response' = [to |-> handled'.socket, success |-> FALSE,
                            message |-> "Room already exists"]
            /\ rooms'[handled'.roomId].participants = <<handled.socket>>]_vars

\* The race is over: the loser, still in no room, has just been refused, and
\* the winner alone is in the room and tagged with it.
C12_Witness ==
    /\ handled.event = "create-room"
    /\ response.success = FALSE
    /\ roomId[handled.socket] = undefined
    /\ \E q \in PeerIds \ {handled.socket} :
         /\ rooms[handled.roomId].participants = <<q>>
         /\ roomId[q] = handled.roomId
         /\ status[q] = "connected"

----------------------------------------------------------------------------
\* Vocabulary of the client properties

\* Client c holds an open connection created for remote d in the given
\* signaling state.
HasSession(c, d, state) ==
    \E i \in DOMAIN pcs[c] :
        pcs[c][i].remotePeer = d /\ pcs[c][i].signalingState = state

\* The last step put a new event of the given kind from sender c into q's inbox.
Arrived(q, kind, c) ==
    /\ Len(inbox'[q]) = Len(inbox[q]) + 1
    /\ inbox'[q][Len(inbox'[q])].event = kind
    /\ inbox'[q][Len(inbox'[q])].senderId = c

\* Two connections of different clients hold each other's description and
\* their transport is connected.
IceCompleted ==
    \E c \in Clients, d \in Clients :
        /\ c # d
        /\ \E i \in DOMAIN pcs[c], j \in DOMAIN pcs[d] :
              /\ pcs[c][i].remoteFrom = <<d, j>> /\ pcs[d][j].remoteFrom = <<c, i>>
              /\ pcs[c][i].connectionState = "connected"
              /\ pcs[d][j].connectionState = "connected"

----------------------------------------------------------------------------
\* C13: a client never holds two open (not closed) connections for the same
\* remote participant.
C13_OneSessionPerRemote ==
    \A c \in Clients : \A i \in DOMAIN pcs[c], j \in DOMAIN pcs[c] :
        (i # j /\ ~IsClosed(pcs[c][i]) /\ ~IsClosed(pcs[c][j]))
            => pcs[c][i].remotePeer # pcs[c][j].remotePeer

\* C14: the 'ice-candidate' handler calls addIceCandidate only on a
\* connection whose remote description is set.
C14_NoEarlyAddIceCandidate ==
    [][(did'.step = "ice-candidate" /\ did'.called # 0)
         => pcs[did'.client][did'.called].remoteFrom # << >>]_allvars

\* C15: no candidate a client received for one of its connections is lost:
\* when addIceCandidate settles, the candidate has been applied.
C15_NoCandidateLost ==
    [][did'.step = "addIceCandidate" => did'.ok]_allvars

\* C16: a client that handles user-joined has, at the end of the handler, a
\* connection for the new user with a data channel and an offer under way.
C16_AutoConnect ==
    [][did'.step = "user-joined"
         => LET c == did'.client
                ref == peerConnectionRef'[c]
            IN /\ ref # 0
               /\ pcs'[c][ref].remotePeer = did'.userId
               /\ pcs'[c][ref].dc = "open"
               /\ \E k \in DOMAIN tasks'[c] :
                     tasks'[c][k].pc = ref /\ tasks'[c][k].await = "createOffer"]_allvars

\* C17: two clients never both have a local offer outstanding for each other.
C17_NoGlare ==
    \A c \in Clients, d \in Clients :
        c # d => ~(HasSession(c, d, "have-local-offer") /\ HasSession(d, c, "have-local-offer"))

C20_UserLeftReleases ==
    [][\A c \in Clients :
         (/\ did'.step = "user-left" /\ did'.client = c
          /\ peerConnectionRef[c] # 0
          /\ pcs[c][peerConnectionRef[c]].remotePeer = did'.userId)
            => /\ IsClosed(pcs'[c][peerConnectionRef[c]])
               /\ pcs'[c][peerConnectionRef[c]].dc # "open"
               /\ dataChannelRef[c] # 0 => pcs'[c][dataChannelRef[c]].dc = "closed"
               /\ peerConnectionRef'[c] = 0
               /\ dataChannelRef'[c] = 0
               /\ ~remoteStream'[c]
               /\ connectionState'[c] \notin {"connected", "connecting"}]_allvars

\* user-left has just been handled by a client whose connection for that
\* user, with its data channel and an applied candidate, is now closed.
C20_Witness ==
    /\ did.step = "user-left"
    /\ connectionState[did.client] = "disconnected"
    /\ peerConnectionRef[did.client] = 0
    /\ \E i \in DOMAIN pcs[did.client] :
          /\ pcs[did.client][i].remotePeer = did.userId
          /\ IsClosed(pcs[did.client][i])
          /\ pcs[did.client][i].dc = "closed"
          /\ pcs[did.client][i].applied # << >>

\* C19: in the two-peer scenario, once the transport between the two
\* connections has completed ICE, both clients eventually show the
\* connection state connected.
C19_BothConnected ==
    IceCompleted ~> (\A c \in Clients : connectionState[c] = "connected")

\* Both clients show connected over a completed transport.
C19_Witness ==
    IceCompleted /\ \A c \in Clients : connectionState[c] = "connected"

\* C29: no participant identifier occurs twice in a room's participant list.
C29_ParticipantsDistinct ==
    \A r \in DOMAIN rooms :
        \A i \in 1..Len(rooms[r].participants), j \in 1..Len(rooms[r].participants) :
            i # j => rooms[r].participants[i] # rooms[r].participants[j]

\* C30: every identifier in a room's participant list is that of a connected
\* socket; hence no room is left once all sockets have disconnected.
C30_MembersConnected ==
    \A r \in DOMAIN rooms :
        \A p \in Members(rooms[r].participants) : status[p] = "connected"

\* C22: when a client leaves its room with leaveRoom, the service lists it in
\* no room afterwards.
C22_LeaveReachesService ==
    [][did'.step = "leaveRoom" =>
         \A r \in DOMAIN rooms' : did'.client \notin Members(rooms'[r].participants)]_allvars

\* C24: on one connection the handling of an offer is never in progress
\* together with the handling of another offer, local or remote.
C24_OneExchangeAtATime ==
    \A c \in Clients :
        \A j \in DOMAIN tasks[c], k \in DOMAIN tasks[c] :
            (/\ j # k
             /\ tasks[c][j].pc # 0
             /\ tasks[c][j].pc = tasks[c][k].pc
             /\ tasks[c][j].handler = "offer")
            => tasks[c][k].handler \notin {"offer", "initiateCall"}

\* C23: when startCall adds local tracks to the current connection while it
\* is connected, a fresh offer is started on that same connection and no
\* connection is created.
C23_TrackRenegotiates ==
    [][(/\ did'.step = "getUserMedia"
        /\ did'.ok
        /\ did'.handler = "startCall"
        /\ peerConnectionRef[did'.client] # 0
        /\ pcs[did'.client][peerConnectionRef[did'.client]].connectionState = "connected")
       => LET c == did'.client
              ref == peerConnectionRef[c]
          IN /\ Len(pcs'[c]) = Len(pcs[c])
             /\ peerConnectionRef'[c] = ref
             /\ \E k \in DOMAIN tasks'[c] :
                    tasks'[c][k].pc = ref /\ tasks'[c][k].await = "createOffer"]_allvars

\* C21: when leaveRoom or endCall returns, the client holds no live camera,
\* screen or canvas capture and every connection and data channel it created
\* is closed; and no camera capture starts for a client that has left.
C21_LeaveReleasesAll ==
    [][/\ did'.step \in {"leaveRoom", "endCall"} =>
            LET c == did'.client
            IN /\ ~localStream'[c] /\ ~screenStream'[c] /\ ~canvasStream'[c]
               /\ \A i \in DOMAIN pcs'[c] :
                      IsClosed(pcs'[c][i]) /\ pcs'[c][i].dc # "open"
       /\ (did'.step = "getUserMedia" /\ did'.ok) =>
            currentRoom'[did'.client] # null]_allvars

\* C25: no connection has more than one sender that carries a video track.
C25_OneVideoSender ==
    \A c \in Clients : \A i \in DOMAIN pcs[c] : pcs[c][i].video <= 1

\* C26: when getUserMedia or getDisplayMedia rejects while the client has a
\* current connection, every connection of the client with its data channel,
\* the connection state and the remote stream are as before, and nothing is
\* sent to the server.
C26_FailedMediaIsLocal ==
    [][(/\ did'.step \in {"getUserMedia", "getDisplayMedia"}
        /\ ~did'.ok
        /\ peerConnectionRef[did'.client] # 0)
       => LET c == did'.client
          IN /\ SubSeq(pcs'[c], 1, Len(pcs[c])) = pcs[c]
             /\ connectionState'[c] = connectionState[c]
             /\ remoteStream'[c] = remoteStream[c]
             /\ UNCHANGED <<vars, inbox>>]_allvars

\* A denied startCall while the current connection is connected.
C26_Witness ==
    /\ did.step = "getUserMedia"
    /\ ~did.ok
    /\ did.handler = "startCall"
    /\ peerConnectionRef[did.client] # 0
    /\ pcs[did.client][peerConnectionRef[did.client]].connectionState = "connected"

\* C27: no offer or answer is applied to a connection whose ICE has failed,
\* and when a client creates a connection none of its connections is a
\* failed one that was not closed.
C27_FailedIsDiscarded ==
    [][/\ (/\ did'.step \in {"offer", "answer", "ice-candidate"}
           /\ peerConnectionRef'[did'.client] # 0)
          => pcs'[did'.client][peerConnectionRef'[did'.client]].connectionState # "failed"
       /\ \A c \in Clients :
              Len(pcs'[c]) > Len(pcs[c]) =>
                  \A i \in DOMAIN pcs[c] : pcs[c][i].connectionState # "failed"]_allvars

\* C28: a failed media acquisition is reported with the information of
\* MEDIA_PERMISSION_DENIED when the browser's error is a NotAllowedError and
\* with that of MEDIA_DEVICE_NOT_FOUND when it is a NotFoundError.
C28_TypedMediaError ==
    (startMedia.step = "returned" /\ ~startMedia.returned.success) =>
        /\ startMedia.thrown.name = "NotAllowedError" =>
               startMedia.logged = ERROR_MESSAGES["MEDIA_PERMISSION_DENIED"]
        /\ startMedia.thrown.name = "NotFoundError" =>
               startMedia.logged = ERROR_MESSAGES["MEDIA_DEVICE_NOT_FOUND"]

\* C36: an offer, answer or ice-candidate is delivered only to one socket,
\* and only when the sender and that socket are both listed in one room of
\* the room map at the time of the relay.
C36_RelayWithinRoom ==
    [][IsRelay(handled') =>
         /\ Cardinality(emitted') <= 1
         /\ \A e \in emitted' :
              RoomsListing(handled'.socket) \cap RoomsListing(e.to) # {}]_vars


\* C33: every step of handling one received offer runs on the connection
\* the step before it ran on: when setRemoteDescription or createAnswer has
\* settled the handler goes on with the same connection or stops, and the
\* answer it emits was created by the connection it was set on.
C33_OfferOnOneSession ==
    [][/\ (/\ did'.step \in {"setRemoteDescription", "createAnswer"}
           /\ did'.handler = "offer"
           /\ did'.ok)
            => did'.next \in {0, did'.pc}
       /\ (/\ did'.step = "setLocalDescription"
           /\ did'.handler = "offer"
           /\ did'.ok)
            => \A e \in emitted' :
                 e.event = "answer" => e.payload.from = <<did'.client, did'.pc>>]_allvars

\* C32: the connectionState shown is only ever written by a state change of
\* the current connection: a connection that was replaced or cleaned up
\* does not overwrite it.
C32_StateOfCurrentSession ==
    [][did'.step = "onconnectionstatechange" =>
         did'.pc = peerConnectionRef[did'.client]]_allvars

\* C31: when setRemoteDescription, createAnswer, createOffer or
\* setLocalDescription rejects, the connection it was called on ends closed
\* or failed, and no other connection changes.
C31_FailedNegotiationEnds ==
    [][(/\ did'.step \in {"setRemoteDescription", "createAnswer", "createOffer",
                          "setLocalDescription"}
        /\ ~did'.ok)
       => LET c == did'.client
              pc == pcs'[c][did'.pc]
          IN /\ IsClosed(pc) \/ pc.connectionState = "failed"
             /\ \A q \in Clients : \A i \in 1..Len(pcs[q]) :
                  <<q, i>> # <<c, did'.pc>> => pcs'[q][i] = pcs[q][i]]_allvars


\* C34: user-left for a participant other than the remote of the current
\* connection leaves that connection, its data channel, the remote stream
\* and remotePeerId as they are.
C34_UserLeftOfAnother ==
    [][(/\ did'.step = "user-left"
        /\ peerConnectionRef[did'.client] # 0
        /\ pcs[did'.client][peerConnectionRef[did'.client]].remotePeer # did'.userId)
       => LET c == did'.client
          IN /\ pcs'[c] = pcs[c]
             /\ peerConnectionRef'[c] = peerConnectionRef[c]
             /\ dataChannelRef'[c] = dataChannelRef[c]
             /\ remoteStream'[c] = remoteStream[c]
             /\ remotePeerId'[c] = remotePeerId[c]]_allvars

\* C35: an answer or ice-candidate that arrives while there is no connection
\* changes nothing, and setRemoteDescription(answer) or addIceCandidate for
\* a message whose senderId is not the remote of the connection it was
\* called on leaves that connection and the remote stream as they are.
C35_AppliedToSendersSession ==
    [][/\ (/\ did'.step \in {"answer", "ice-candidate"}
           /\ peerConnectionRef[did'.client] = 0)
            => pcs' = pcs /\ tasks' = tasks
       /\ (/\ \/ did'.step = "setRemoteDescription" /\ did'.handler = "answer"
              \/ did'.step = "addIceCandidate"
           /\ pcs[did'.client][did'.pc].remotePeer # did'.peer)
            => /\ pcs'[did'.client] = pcs[did'.client]
               /\ remoteStream' = remoteStream]_allvars


\* The smaller of two numbers.
Min(a, b) == IF a < b THEN a ELSE b

C38_NoSendWithoutSocket ==
    [][/\ (signaling'.calls = signaling.calls + 1 /\ signaling.socket = null) =>
            /\ signaling'.last.outcome =
                 (IF signaling'.last.method \in RelayKinds THEN "thrown" ELSE "rejected")
            /\ signaling'.last.message = NotConnected
            /\ signaling'.acks = signaling.acks
            /\ vars' = vars
       /\ (Len(signaling'.acks) < Len(signaling.acks) /\ signaling'.socket # null) =>
            LET res == Head(signaling.acks).response
            IN /\ res.success =>
                    /\ signaling'.last.outcome = "resolved"
                    /\ signaling'.last.value = res
               /\ ~res.success =>
                    /\ signaling'.last.outcome = "rejected"
                    /\ signaling'.last.message = res.message]_allvars

\* After disconnect() a request was rejected with the not-connected error.
C38_Witness ==
    /\ signaling.socket = null
    /\ status[Own] = "disconnected"
    /\ signaling.last.outcome = "rejected"
    /\ signaling.last.message = NotConnected


\* C40: initializePeerConnection called while a connection exists returns
\* that connection and creates nothing; called while there is none it
\* creates one open connection in state 'new', makes it current and returns
\* it, every earlier connection being closed and the connectionState shown
\* being 'new'; at any time at most one connection is open and no
\* connection carries the tracks of one stream twice.
C40_InitializeIdempotent ==
    /\ [][(hook'.calls = hook.calls + 1 /\ hook'.last = "initializePeerConnection") =>
            IF hook.peerConnectionRef # 0
            THEN /\ hook'.returned = hook.peerConnectionRef
                 /\ hook'.peerConnectionRef = hook.peerConnectionRef
                 /\ hook'.pcs = hook.pcs
            ELSE /\ Len(hook'.pcs) = Len(hook.pcs) + 1
                 /\ hook'.returned = Len(hook'.pcs)
                 /\ hook'.peerConnectionRef = Len(hook'.pcs)
                 /\ \A i \in 1..Len(hook.pcs) : hook'.pcs[i] = hook.pcs[i] /\ hook.pcs[i].closed
                 /\ ~hook'.pcs[Len(hook'.pcs)].closed
                 /\ hook'.pcs[Len(hook'.pcs)].connectionState = "new"
                 /\ hook'.connectionState = "new"]_hook
    /\ [](/\ Cardinality({i \in DOMAIN hook.pcs : ~hook.pcs[i].closed}) <= 1
          /\ \A i \in DOMAIN hook.pcs :
               \A j, k \in DOMAIN hook.pcs[i].senders :
                 hook.pcs[i].senders[j] = hook.pcs[i].senders[k] => j = k)

\* A second connection was created after cleanup closed the first, which
\* carried the tracks of the local stream.
C40_Witness ==
    /\ Len(hook.pcs) = 2
    /\ hook.pcs[1].closed
    /\ hook.pcs[1].senders # << >>
    /\ ~hook.pcs[2].closed
    /\ hook.returned = 2


\* C39: toggleMute and toggleVideo negate the enabled flag of the local
\* tracks of their kind and the matching flag of the UI and nothing else:
\* connections, data channel, pending operations and remote state are as
\* before and the server receives nothing; and whenever a local stream is
\* held, isAudioEnabled equals the enabled flag of its audio tracks and, in
\* a video call, isVideoEnabled that of its video tracks.
C39_ToggleFlagsMatchTracks ==
    /\ [][did'.step \in {"toggleMute", "toggleVideo"} =>
            LET c == did'.client
            IN /\ <<pcs, tasks, peerConnectionRef, dataChannelRef, remoteStream,
                    connectionState, localStream, inbox>>' =
                  <<pcs, tasks, peerConnectionRef, dataChannelRef, remoteStream,
                    connectionState, localStream, inbox>>
               /\ vars' = vars
               /\ IF did'.step = "toggleMute"
                  THEN /\ isAudioEnabled'[c] = ~isAudioEnabled[c]
                       /\ trackEnabled'[c].audio = ~trackEnabled[c].audio
                       /\ isVideoEnabled'[c] = isVideoEnabled[c]
                       /\ trackEnabled'[c].video = trackEnabled[c].video
                  ELSE /\ isVideoEnabled'[c] = ~isVideoEnabled[c]
                       /\ trackEnabled'[c].video = ~trackEnabled[c].video
                       /\ isAudioEnabled'[c] = isAudioEnabled[c]
                       /\ trackEnabled'[c].audio = trackEnabled[c].audio]_allvars
    /\ [](\A c \in Clients :
            localStream[c] =>
              /\ isAudioEnabled[c] = trackEnabled[c].audio
              /\ callMode[c] = "video" => isVideoEnabled[c] = trackEnabled[c].video)

============================================================================
